---- MODULE Spec2Model ----
(***************************************************************************)
(* Model of the wildfire monitor's core: the risk scorer and the risk      *)
(* buffers (src/analysis/risk_calculator.py), the industrial heat filter   *)
(* (src/filters/industrial_filter.py), the fires table (src/database),     *)
(* the weather and air quality enrichment (src/ingestion) and the tasks of *)
(* the ETL flow (flows/etl_flow.py).                                       *)
(*                                                                         *)
(* Units.  Normalised features are kept in thousandths (1.0 = 1000) and    *)
(* weights in hundredths (0.3 = 30), so that a risk_score s is held as     *)
(* the integer s * 1000 and all arithmetic is exact.  Coordinates are held *)
(* in units of 0.00001 degree, which is taken as one metre on the          *)
(* projected plane.                                                        *)
(***************************************************************************)
EXTENDS Integers, Sequences, FiniteSets, TLC

VARIABLES
    phase,                  \* which part of the program the behaviour exercises
    fires_gdf,              \* scorer: the detection handed to the scorer
    scored,                 \* scorer: the row returned, or NotScored
    fires,                  \* the fires table of the DuckDB store
    persistent_locations,   \* IndustrialHeatFilter.persistent_locations
    snapshot,               \* data/static/persistent_anomalies.geojson
    op,                     \* the operation that ran last, with its arguments
    ret,                    \* what identify_persistent_anomalies returned last
    batch,                  \* filter_fires: the frame of live detections
    filter_args,            \* filter_fires: buffer_km and persistent_locations
    filtered_fires,         \* filter_fires: first component of the result
    excluded_fires,         \* filter_fires: second component of the result
    buffer_args,            \* create_risk_buffers: buffer_km and dissolve
    buffers,                \* create_risk_buffers: the frame returned
    etl,                    \* wildfire_etl_flow: the last run and its inputs
    fire_buffers,           \* the fire_buffers table of the DuckDB store
    exported,               \* the files in data/processed
    airnow                  \* AirNowClient: its cache and the call under way

scorerVars == <<fires_gdf, scored>>
storeVars == <<fires>>
detectorVars == <<persistent_locations, snapshot, ret>>
filterVars == <<batch, filter_args, filtered_fires, excluded_fires>>
bufferVars == <<buffer_args, buffers>>
etlVars == <<etl, fire_buffers, exported>>
airnowVars == <<airnow>>
vars == <<phase, scorerVars, storeVars, detectorVars, op, filterVars,
          bufferVars, etlVars, airnowVars>>

(***************************************************************************)
(* Risk scorer                                                             *)
(***************************************************************************)

\* the base weights with brightness and confidence exchanged
weights_swapped ==
    [brightness |-> 20, confidence |-> 30, frp |-> 30, daynight |-> 20]

\* self.weights, in hundredths
weights == [brightness |-> 30, confidence |-> 20, frp |-> 30, daynight |-> 20]

\* self.enhanced_weights, in hundredths
enhanced_weights ==
    [brightness |-> 20, confidence |-> 15, frp |-> 20, daynight |-> 10,
     humidity |-> 15, wind |-> 10, precipitation |-> 5, fire_danger |-> 5]

\* a float cell of a frame: a number (in thousandths where it is a norm) or NaN
Num(n) == [isna |-> FALSE, v |-> n]
NaN == [isna |-> TRUE, v |-> 0]

\* no clipping at all
clip_none(x) == x

\* Series.clip(lower=0.0, upper=1.0); NaN stays NaN
clip(x) ==
    IF x.isna THEN NaN
    ELSE IF x.v < 0 THEN Num(0)
    ELSE IF x.v > 1000 THEN Num(1000)
    ELSE x

\* the cell of column col in row d: NaN when the value is null
Cell(d, col) == IF col \in d.isnull THEN NaN ELSE Num(d[col])

\* Series.fillna(fill)
fillna(x, fill) == IF x.isna THEN Num(fill) ELSE x

\* (df["bright_ti4"] - 300) / 100, clipped
brightness_norm(d) ==
    LET x == Cell(d, "bright_ti4")
    IN  clip(IF x.isna THEN NaN ELSE Num((x.v - 300) * 10))

\* confidence_map for an object column, confidence / 100 for a numeric one
confidence_norm(d) ==
    IF "confidence" \in d.isnull THEN NaN
    ELSE IF d.confidence.dtype = "object"
         THEN CASE d.confidence.val = "l" -> Num(330)
                [] d.confidence.val = "n" -> Num(660)
                [] d.confidence.val = "h" -> Num(1000)
                [] OTHER -> NaN
         ELSE Num(d.confidence.val * 10)

\* the radiative power scale turned round: 1 - frp / 500, clipped
frp_norm_inverted(d) ==
    LET x == IF "frp" \in d.isnull THEN [isna |-> TRUE, v |-> 0]
             ELSE [isna |-> FALSE, v |-> d.frp]
    IN  IF x.isna THEN x
        ELSE [isna |-> FALSE,
              v |-> IF 1000 - x.v * 2 < 0 THEN 0
                    ELSE IF 1000 - x.v * 2 > 1000 THEN 1000
                    ELSE 1000 - x.v * 2]

\* (df["frp"] / 500).clip(0, 1)
frp_norm(d) ==
    LET x == Cell(d, "frp")
    IN  clip(IF x.isna THEN NaN ELSE Num(x.v * 2))

\* df["daynight"].map({"D": 0.5, "N": 1.0})
daynight_norm(d) ==
    IF "daynight" \in d.isnull THEN NaN
    ELSE CASE d.daynight = "D" -> Num(500)
           [] d.daynight = "N" -> Num(1000)
           [] OTHER -> NaN

\* 1 - relative_humidity.fillna(50.0) / 100, clipped
humidity_norm(d) ==
    clip(Num(1000 - fillna(Cell(d, "relative_humidity"), 50).v * 10))

\* wind_speed_kmh.fillna(0.0) / 60, clipped
wind_norm(d) ==
    clip(Num((fillna(Cell(d, "wind_speed_kmh"), 0).v * 1000) \div 60))

\* 1 - precip_probability.fillna(0.0) / 100, clipped
precip_norm(d) ==
    clip(Num(1000 - fillna(Cell(d, "precip_probability"), 0).v * 10))

\* fire_danger_index.fillna(0.0) / 100 clipped when the column exists, else 0.5
fire_danger_norm(d) ==
    IF "fire_danger_index" \in d.columns
    THEN clip(Num(fillna(Cell(d, "fire_danger_index"), 0).v * 10))
    ELSE Num(500)

\* sum of norm * weight over the features; NaN as soon as one term is NaN.
\* The result is risk_score * 1000.
WeightedSum(norms, w) ==
    IF \E k \in DOMAIN norms : norms[k].isna THEN NaN
    ELSE LET RECURSIVE Sum(_)
             Sum(ks) == IF ks = {} THEN 0
                        ELSE LET k == CHOOSE k \in ks : TRUE
                             IN  norms[k].v * w[k] + Sum(ks \ {k})
         IN  Num(Sum(DOMAIN norms))

\* bins=[0, 30, 60, 100] of pd.cut, in score units
bins == <<0, 30, 60, 100>>

\* labels=["Low", "Moderate", "High"] of pd.cut
labels == <<"Low", "Moderate", "High">>

\* pd.cut(score, bins, labels): bin i is (bins[i], bins[i+1]], right-closed;
\* a score outside every bin, and NaN, get the category NaN
cut(score) ==
    IF score.isna THEN "NaN"
    ELSE LET hit == {i \in 1..Len(labels) :
                        /\ bins[i] * 1000 < score.v
                        /\ score.v <= bins[i + 1] * 1000}
         IN  IF hit = {} THEN "NaN" ELSE labels[CHOOSE i \in hit : TRUE]

BaseColumns == {"bright_ti4", "confidence", "frp", "daynight"}

WeatherColumns == {"relative_humidity", "wind_speed_kmh", "precip_probability"}

\* the row a failed call leaves behind: no score and no category.  A result
\* row keeps the fire_danger_norm column next to the score; where the frame
\* returned has no such column the cell is NaN.
Raised == [raised |-> TRUE, risk_score |-> NaN, risk_category |-> "NaN",
           uses_weather_data |-> FALSE, fire_danger_norm |-> NaN]

\* FireRiskCalculator.calculate_base_risk on one row; df[col] of a column
\* the frame does not have raises KeyError
calculate_base_risk(d) ==
    IF ~(BaseColumns \subseteq d.columns) THEN Raised
    ELSE LET norms == [brightness |-> brightness_norm(d),
                       confidence |-> confidence_norm(d),
                       frp |-> frp_norm(d),
                       daynight |-> daynight_norm(d)]
             risk_score == WeightedSum(norms, weights)
         IN  [raised |-> FALSE, risk_score |-> risk_score,
              risk_category |-> cut(risk_score),
              uses_weather_data |-> FALSE, fire_danger_norm |-> NaN]

\* weather taken as available as soon as one of the three columns exists
has_some_weather(d) == WeatherColumns \cap d.columns # {}

\* has_weather: all three weather columns are in df.columns
has_weather(d) == WeatherColumns \subseteq d.columns

\* FireRiskCalculator.calculate_enhanced_risk on one row
calculate_enhanced_risk(d) ==
        IF ~has_weather(d) THEN calculate_base_risk(d)
        ELSE IF ~(BaseColumns \subseteq d.columns) THEN Raised
        ELSE LET norms == [brightness |-> brightness_norm(d),
                           confidence |-> confidence_norm(d),
                           frp |-> frp_norm(d),
                           daynight |-> daynight_norm(d),
                           humidity |-> humidity_norm(d),
                           wind |-> wind_norm(d),
                           precipitation |-> precip_norm(d),
                           fire_danger |-> fire_danger_norm(d)]
                 risk_score == WeightedSum(norms, enhanced_weights)
             IN  [raised |-> FALSE, risk_score |-> risk_score,
                  risk_category |-> cut(risk_score),
                  uses_weather_data |-> TRUE,
                  fire_danger_norm |-> norms.fire_danger]

(***************************************************************************)
(* Frames, dates and coordinates                                           *)
(***************************************************************************)

\* a GeoDataFrame with the sequence of its rows
Frame(rows) == [isnone |-> FALSE, rows |-> rows]

\* Python's None where a frame is expected
None == [isnone |-> TRUE, rows |-> << >>]

\* gpd.GeoDataFrame()
EmptyFrame == Frame(<< >>)

\* len(frame)
len(f) == Len(f.rows)

\* datetime.now(), as a day number
Today == 40

Abs(x) == IF x < 0 THEN -x ELSE x

\* the sum of column col over the set of rows S
RECURSIVE SumOver(_, _)
SumOver(S, col) ==
    IF S = {} THEN 0
    ELSE LET r == CHOOSE r \in S : TRUE
         IN  r[col] + SumOver(S \ {r}, col)

(***************************************************************************)
(* The fires table                                                         *)
(***************************************************************************)

\* a float as astype(str) prints it: the sign and the magnitude, so that
\* -0.0 prints "-0.0" and 0.0 prints "0.0"
astype_str(x) == <<IF x.neg THEN "-" ELSE "", x.mag>>

\* a coordinate as the float it is
Float(x) == [neg |-> x < 0, mag |-> Abs(x)]

\* Series.round(4): to the nearest 0.0001 degree (10 units), halves to even;
\* the sign is kept, so a small negative value rounds to -0.0
round4(x) ==
    LET q == Abs(x) \div 10
        r == Abs(x) % 10
        up == r > 5 \/ (r = 5 /\ q % 2 = 1)
    IN  [neg |-> x < 0, mag |-> 10 * (IF up THEN q + 1 ELSE q)]

\* fire_id of src/database/operations.py: date _ round(lat, 4) _ round(lon, 4)
operations_fire_id(d) ==
    <<d.acq_date, astype_str(round4(d.latitude)),
      astype_str(round4(d.longitude))>>

\* fire_id of src/database/__init__.py: date _ lat _ lon, not rounded
database_fire_id(d) ==
    <<d.acq_date, astype_str(Float(d.latitude)),
      astype_str(Float(d.longitude))>>

\* the table row of detection d under identifier id
TableRow(id, d) ==
    [fire_id |-> id, latitude |-> d.latitude, longitude |-> d.longitude,
     acq_date |-> d.acq_date]

\* the fire_id column the save function of the given module computes
fire_id(module, d) ==
    IF module = "operations" THEN operations_fire_id(d)
    ELSE database_fire_id(d)

\* INSERT OR REPLACE INTO fires of the rows of df, one after the other:
\* fire_id is the primary key
RECURSIVE InsertOrReplace(_, _, _)
InsertOrReplace(table, df, module) ==
    IF df = << >> THEN table
    ELSE LET row == TableRow(fire_id(module, Head(df)), Head(df))
         IN  InsertOrReplace(
                 {r \in table : r.fire_id # row.fire_id} \cup {row},
                 Tail(df), module)

\* the tables an INSERT OR REPLACE ... SELECT of df can leave.  When two rows
\* of df carry the same fire_id DuckDB either lets the later row win or fails
\* the statement and leaves the table as it was.
InsertOutcomes(table, df, module) ==
    LET done == InsertOrReplace(table, df, module)
        ids == {fire_id(module, df[i]) : i \in DOMAIN df}
    IN  IF Cardinality(ids) = Len(df) THEN {done} ELSE {done, table}

\* save_fires_to_db of src/database/operations.py
operations_save_fires_to_db(table, df) ==
    IF df = << >> THEN {table}
    ELSE InsertOutcomes(table, df, "operations")

\* save_fires_to_db of src/database/__init__.py, the one etl_flow imports
database_save_fires_to_db(table, df) ==
    InsertOutcomes(table, df, "database")

(***************************************************************************)
(* Persistent anomaly detector                                             *)
(***************************************************************************)

\* start_date = now - timedelta(days=lookback_days)
start_date(lookback_days) == Today - lookback_days

\* WHERE acq_date >= '{start_date}'
in_window(r, lookback_days) == r.acq_date >= start_date(lookback_days)

\* the step FLOOR(latitude / {grid_size_km}) * {grid_size_km} snaps to:
\* grid_size_km is held in thousandths and divides degrees, so 0.4 is a
\* step of 0.4 degree = 40000 units
grid_step(grid_size_km) == grid_size_km * 100

\* the quotient cut off towards zero instead of floored
snap_towards_zero(x, g) ==
    IF x >= 0 THEN (x \div g) * g ELSE 0 - (((0 - x) \div g) * g)

\* FLOOR(x / g) * g
snap(x, g) == (x \div g) * g

\* grid_lat, grid_lon of a table row
grid_cell(r, grid_size_km) ==
    <<snap(r.latitude, grid_step(grid_size_km)),
      snap(r.longitude, grid_step(grid_size_km))>>

\* the quotient cut off after 2 decimals instead of rounded
detections_per_day_truncated(detection_count, unique_days) ==
    (100 * detection_count) \div unique_days

\* ROUND(detection_count::FLOAT / unique_days, 2), in hundredths
detections_per_day(detection_count, unique_days) ==
    (200 * detection_count + unique_days) \div (2 * unique_days)

\* the aggregates of one group of the GROUP BY; AVG is kept to one unit
location(cell, members) ==
    LET dates == {r.acq_date : r \in members}
        n == Cardinality(members)
    IN  [grid_lat |-> cell[1],
         grid_lon |-> cell[2],
         latitude |-> SumOver(members, "latitude") \div n,
         longitude |-> SumOver(members, "longitude") \div n,
         detection_count |-> n,
         unique_days |-> Cardinality(dates),
         first_detection |-> CHOOSE d \in dates : \A e \in dates : d <= e,
         last_detection |-> CHOOSE d \in dates : \A e \in dates : d >= e,
         detections_per_day |-> detections_per_day(n, Cardinality(dates))]

\* HAVING COUNT(*) > {detection_threshold}
having_more(detection_count, detection_threshold) ==
    detection_count > detection_threshold

\* HAVING COUNT(*) >= {detection_threshold}
having(detection_count, detection_threshold) ==
    detection_count >= detection_threshold

\* the rows of the CTE gridded_fires
gridded_fires(table, lookback_days, detection_threshold, grid_size_km) ==
    LET rows == {r \in table : in_window(r, lookback_days)}
        cells == {grid_cell(r, grid_size_km) : r \in rows}
        group(c) == {r \in rows : grid_cell(r, grid_size_km) = c}
    IN  {location(c, group(c)) : c \in
            {c \in cells : having(Cardinality(group(c)), detection_threshold)}}

\* the rows in any order, as the query would list them without ORDER BY
unordered(rows) ==
    {q \in [1..Cardinality(rows) -> rows] :
        \A i, j \in DOMAIN q : i # j => q[i] # q[j]}

\* ORDER BY detection_count DESC: every listing of the rows in which the
\* counts do not increase (SQL leaves the order of equal counts open)
order_by_detection_count(rows) ==
    {q \in [1..Cardinality(rows) -> rows] :
        /\ \A i, j \in DOMAIN q : i # j => q[i] # q[j]
        /\ \A i, j \in DOMAIN q :
              i < j => q[i].detection_count >= q[j].detection_count}

\* identify_persistent_anomalies: connected says whether duckdb.connect and
\* the query went through, result is what conn.execute(query).fetchdf() gave.
\* The pair is the value of self.persistent_locations afterwards and the
\* value returned; raised says whether an exception reaches the caller.
identify_persistent_anomalies(self_locations, connected, result) ==
    IF ~connected
    THEN [stored |-> self_locations, returned |-> EmptyFrame, raised |-> FALSE]
    ELSE IF Len(result) = 0
    THEN [stored |-> self_locations, returned |-> EmptyFrame, raised |-> FALSE]
    ELSE [stored |-> Frame(result), returned |-> Frame(result),
          raised |-> FALSE]

\* save_persistent_locations: the snapshot file afterwards
save_persistent_locations(self_locations, file) ==
    IF self_locations.isnone \/ len(self_locations) = 0 THEN file
    ELSE self_locations

\* load_persistent_locations: self.persistent_locations afterwards;
\* gpd.read_file of a missing file raises and None is stored
load_persistent_locations(file) == IF file.isnone THEN None ELSE file

(***************************************************************************)
(* Industrial spatial filter                                               *)
(***************************************************************************)

\* to_crs("EPSG:5070") of a point: metres on the projected plane, one unit
\* of 0.00001 degree taken as one metre on both axes
MetresPerUnit == 1

to_crs_5070(p) ==
    [x |-> p.longitude * MetresPerUnit, y |-> p.latitude * MetresPerUnit]

\* buffer_m = buffer_km * 1000, with buffer_km held in tenths of a kilometre
buffer_m(buffer_km) == buffer_km * 100

\* the bounding box of the disc taken for the disc
within_box(point, centre, radius) ==
    /\ Abs(point.x - centre.x) < radius
    /\ Abs(point.y - centre.y) < radius

\* point.within(centre.buffer(radius)): strictly inside the disc.  Offsets
\* beyond the radius on one axis are outside whatever the other axis says.
within_buffer(point, centre, radius) ==
    LET dx == Abs(point.x - centre.x)
        dy == Abs(point.y - centre.y)
    IN  /\ dx < radius
        /\ dy < radius
        /\ dx * dx + dy * dy < radius * radius

\* fires_proj.geometry.within(persistent_buffer), persistent_buffer being the
\* unary_union of the buffers around the persistent locations
is_industrial(d, locations, buffer_km) ==
    \E i \in DOMAIN locations :
        within_buffer(to_crs_5070(d), to_crs_5070(locations[i]),
                      buffer_m(buffer_km))

\* fires_proj[~fires_proj["is_industrial"]]
select_not_industrial(df, locations, buffer_km) ==
    LET keep(d) == ~is_industrial(d, locations, buffer_km)
    IN  SelectSeq(df, keep)

\* the mask dropped: every row selected
select_all(df, locations, buffer_km) == df

\* fires_proj[fires_proj["is_industrial"]]
select_industrial(df, locations, buffer_km) ==
    LET keep(d) == is_industrial(d, locations, buffer_km)
    IN  SelectSeq(df, keep)

\* the stored locations taken also when an empty frame was passed
locations_or_stored(passed, self_locations) ==
    IF passed.isnone \/ len(passed) = 0 THEN self_locations ELSE passed

\* persistent_locations = self.persistent_locations if none was passed
effective_locations(passed, self_locations) ==
    IF passed.isnone THEN self_locations ELSE passed

\* the input cut down to the rows retained, as a drop in place would leave it
fires_gdf_cut_in_place(df, parts) == parts[1]

\* the frame passed as fires_gdf after filter_fires returned parts: to_crs
\* gives a new frame, and the is_industrial column is set on and dropped
\* from that one
fires_gdf_after_filter(df, parts) == df

\* self.persistent_locations after filter_fires: the method reads it and
\* never assigns it
self_locations_after_filter(self_locations, passed) == self_locations

\* filter_fires: the pair (filtered_fires, excluded_fires)
filter_fires(self_locations, df, buffer_km, passed) ==
    LET locations == effective_locations(passed, self_locations)
    IN  IF locations.isnone \/ len(locations) = 0
        THEN <<df, EmptyFrame>>
        ELSE <<Frame(select_not_industrial(df.rows, locations.rows, buffer_km)),
               Frame(select_industrial(df.rows, locations.rows, buffer_km))>>

(***************************************************************************)
(* Risk buffers                                                            *)
(***************************************************************************)

\* the observed argument of GeoDataFrame.dissolve, which create_risk_buffers
\* leaves at its default: a categorical key, as pd.cut makes risk_category,
\* gets a group for each of its categories, also for those no row has
observed == FALSE

\* the union of the buffers of radius buffer_km * 1000 m around the rows of
\* members (buffer_km in tenths), held as the centres and the radius; the
\* geometry of a group without rows is null
merge_geometries(members, buffer_km) ==
    [isnull |-> members = << >>,
     centres |-> {<<members[i].latitude, members[i].longitude>> :
                     i \in DOMAIN members},
     radius |-> buffer_m(buffer_km)]

\* aggfunc="first" on the fire_id column of a group: null when it is empty
first_fire_id(members) ==
    IF members = << >> THEN << >> ELSE members[1].fire_id

\* fires_proj.dissolve(by="risk_category", aggfunc="first").reset_index()
\* cut down to buffer_cols: the rows in the order of the categories; rows
\* whose category is NaN belong to no group
dissolved(rows, columns, buffer_km) ==
    LET members(c) == LET is_c(r) == r.risk_category = c
                      IN  SelectSeq(rows, is_c)
        seen(c) == members(c) # << >>
        keys == IF observed THEN SelectSeq(labels, seen) ELSE labels
    IN  [i \in DOMAIN keys |->
            IF "fire_id" \in columns
            THEN [fire_id |-> first_fire_id(members(keys[i])),
                  risk_category |-> keys[i],
                  geometry |-> merge_geometries(members(keys[i]), buffer_km)]
            ELSE [risk_category |-> keys[i],
                  geometry |-> merge_geometries(members(keys[i]), buffer_km)]]

\* fires_proj[buffer_cols] of the individual buffers: geometry and
\* risk_category with those of the optional columns the frame has
individual(rows, columns, buffer_km) ==
    [i \in DOMAIN rows |->
        LET r == rows[i]
            g == merge_geometries(<<r>>, buffer_km)
        IN  IF "fire_id" \in columns
            THEN [geometry |-> g, risk_category |-> r.risk_category,
                  fire_id |-> r.fire_id, latitude |-> r.latitude,
                  longitude |-> r.longitude, acq_date |-> r.acq_date]
            ELSE [geometry |-> g, risk_category |-> r.risk_category,
                  latitude |-> r.latitude, longitude |-> r.longitude,
                  acq_date |-> r.acq_date]]

\* FireRiskCalculator.create_risk_buffers: without a risk_category column
\* the selection fires_proj[buffer_cols] raises KeyError
create_risk_buffers(df, buffer_km, dissolve) ==
    IF "risk_category" \notin df.columns
    THEN [raised |-> TRUE, rows |-> << >>, columns |-> {}]
    ELSE IF dissolve
    THEN [raised |-> FALSE,
          rows |-> dissolved(df.rows, df.columns, buffer_km),
          columns |-> {"risk_category", "geometry"}
                        \cup ({"fire_id"} \cap df.columns)]
    ELSE [raised |-> FALSE,
          rows |-> individual(df.rows, df.columns, buffer_km),
          columns |-> {"geometry", "risk_category"}
                        \cup ({"fire_id", "latitude", "longitude", "risk_score",
                               "acq_date", "frp", "brightness"}
                              \cap df.columns)]

(***************************************************************************)
(* Tasks of the ETL flow                                                   *)
(***************************************************************************)

\* the filter radius tied to the buffer_km of the flow
industrial_buffer_km_shared(buffer_km) == buffer_km

\* the buffer_km=1.0 filter_industrial_sources passes to filter_fires, in
\* tenths; the buffer_km of the flow does not reach the task
industrial_buffer_km(buffer_km) == 10

\* the flow going on whatever the frame holds
goes_on(df) == FALSE

\* if len(fires) == 0: return None, after the fetch and after the filter
no_fires(df) == len(df) = 0

\* the table left as it is
rows_kept(table) == table

\* DELETE FROM fire_buffers, DELETE FROM fires of clear_database_task: the
\* table afterwards
clear_database_task(table) == {}

\* the analysis made in every run, whatever was loaded
always_analyse(loaded) == TRUE

\* if persistent is None or len(persistent) == 0: the locations are to be
\* identified from the history
needs_analysis(loaded) == loaded.isnone \/ len(loaded) = 0

\* filter_industrial_sources(df, db_path) in a flow run with buffer_km: the
\* outcomes, one per order in which the analysis can list
\* its locations.  file is the snapshot, table the fires table.
filter_industrial_sources(df, file, table, buffer_km) ==
    LET loaded == load_persistent_locations(file)
        analyse == needs_analysis(loaded)
        results == IF analyse
                   THEN order_by_detection_count(
                            gridded_fires(table, 30, 2, 400))
                   ELSE {<< >>}
        outcome(result) ==
            LET found == identify_persistent_anomalies(loaded, TRUE, result)
                stored == IF analyse THEN found.stored ELSE loaded
                persistent == IF analyse THEN found.returned ELSE loaded
                radius == industrial_buffer_km(buffer_km)
                parts == filter_fires(stored, df, radius, persistent)
            IN  IF len(persistent) > 0
                THEN [fires |-> parts[1], excluded |-> parts[2],
                      stored |-> stored,
                      file |-> save_persistent_locations(stored, file),
                      args |-> [buffer_km |-> radius,
                                persistent_locations |-> persistent],
                      analysed |-> analyse]
                ELSE [fires |-> df, excluded |-> EmptyFrame,
                      stored |-> stored, file |-> file,
                      args |-> [buffer_km |-> 0,
                                persistent_locations |-> None],
                      analysed |-> analyse]
    IN  {outcome(result) : result \in results}

\* the weather columns enrich_fires_with_weather adds that the scorer reads
weather_columns ==
    {"relative_humidity", "wind_speed_kmh", "precip_probability",
     "fire_danger_index"}

\* what get_fire_weather_for_point gives for a point where the forecast is
\* available
Forecast ==
    [relative_humidity |-> 20, wind_speed_kmh |-> 30,
     precip_probability |-> 0, fire_danger_index |-> 50]

\* one row of enrich_fires_with_weather: every weather column is set to
\* None and then filled from the lookup, which returns None when the
\* request fails (httpx.HTTPError, KeyError and ValueError are caught)
with_weather(d, outcome) ==
    [columns |-> d.columns \cup weather_columns,
     isnull |-> (d.isnull \ weather_columns)
                  \cup (IF outcome = "ok" THEN {} ELSE weather_columns),
     relative_humidity |->
         IF outcome = "ok" THEN Forecast.relative_humidity ELSE 0,
     wind_speed_kmh |->
         IF outcome = "ok" THEN Forecast.wind_speed_kmh ELSE 0,
     precip_probability |->
         IF outcome = "ok" THEN Forecast.precip_probability ELSE 0,
     fire_danger_index |->
         IF outcome = "ok" THEN Forecast.fire_danger_index ELSE 0] @@ d

\* NOAAWeatherClient.enrich_fires_with_weather: the rows afterwards
enrich_fires_with_weather(rows, outcomes) ==
    [i \in DOMAIN rows |-> with_weather(rows[i], outcomes[i])]

\* the columns enrich_fires_with_aqi adds
aqi_columns == {"aqi", "aqi_category"}

\* the observation AirNow returns where it has one
Observation == [aqi |-> 42, aqi_category |-> "Good"]

\* AirNowClient._get_cache_key: latitude and longitude to 4 decimals
cache_key(d) ==
    <<astype_str(round4(d.latitude)), astype_str(round4(d.longitude))>>

\* one row with its AQI columns, filled from the observation or left None
with_aqi(d, filled) ==
    [columns |-> d.columns \cup aqi_columns,
     isnull |-> (d.isnull \ aqi_columns)
                  \cup (IF filled THEN {} ELSE aqi_columns),
     aqi |-> IF filled THEN Observation.aqi ELSE 0,
     aqi_category |-> IF filled THEN Observation.aqi_category ELSE ""] @@ d

\* the loop of enrich_fires_with_aqi from row i on.  st holds the rows done,
\* the keys cached, the number of requests made and whether an exception
\* has left the loop.  get_current_observation answers from the cache, or
\* makes the request: "ok" is cached and fills the row, "http_error" (a
\* status or transport error) returns None, "bad_body" is a 200 response
\* whose body is not JSON: response.json() raises a ValueError that neither
\* except clause catches.
RECURSIVE aqi_loop(_, _, _, _)
aqi_loop(rows, outcomes, i, st) ==
    IF i > Len(rows) \/ st.raised THEN st
    ELSE LET d == rows[i]
             cached == cache_key(d) \in st.cache
         IN  IF cached
             THEN aqi_loop(rows, outcomes, i + 1,
                      [st EXCEPT !.rows = Append(@, with_aqi(d, TRUE))])
             ELSE IF outcomes[i] = "bad_body"
             THEN [st EXCEPT !.raised = TRUE, !.lookups = @ + 1]
             ELSE aqi_loop(rows, outcomes, i + 1,
                      [rows |-> Append(st.rows,
                                       with_aqi(d, outcomes[i] = "ok")),
                       cache |-> IF outcomes[i] = "ok"
                                 THEN st.cache \cup {cache_key(d)}
                                 ELSE st.cache,
                       lookups |-> st.lookups + 1,
                       raised |-> FALSE])

\* AirNowClient.enrich_fires_with_aqi with a new client (empty cache)
enrich_fires_with_aqi(rows, outcomes) ==
    aqi_loop(rows, outcomes, 1,
             [rows |-> << >>, cache |-> {}, lookups |-> 0, raised |-> FALSE])

\* max_retries and retry_delay (seconds) of get_current_observation
max_retries == 3

retry_delay == 2

\* wait_time = retry_delay * (2**attempt)
wait_time(attempt) == retry_delay * (2 ^ attempt)

\* how an HTTP attempt can end: a 2xx response with a list of observations,
\* with an empty list or with a body that is not JSON, a 429, another status
\* raise_for_status rejects, or a transport error (httpx.HTTPError)
Responses ==
    {"ok", "ok_empty", "bad_body", "429", "status_error", "transport_error"}

\* what the call hands back: a dict, or None
Data(o) == [isnone |-> FALSE, data |-> o]

NoData == [isnone |-> TRUE, data |-> [aqi |-> 0, aqi_category |-> ""]]

\* result = data[0] if isinstance(data, list) and len(data) > 0 else None
first_observation(response) ==
    IF response = "ok" THEN Data(Observation) ELSE NoData

\* self._cache[cache_key] = (datetime.now(), result)
cache_put(cache, key, result) ==
    {e \in cache : e[1] # key} \cup {<<key, result>>}

\* a retry after any status error
retries_on_status_error(response, attempt) ==
    response \in {"429", "status_error"} /\ attempt < max_retries - 1

\* the handler sleeps and continues: status_code == 429 and
\* attempt < max_retries - 1
retries(response, attempt) ==
    response = "429" /\ attempt < max_retries - 1

\* one pass of the body of 'for attempt in range(max_retries)' for a call c
\* whose request ended with response
attempt_once(c, response) ==
    LET made == [c EXCEPT !.requests = @ + 1,
                          !.responses = Append(@, response)]
    IN  IF response \in {"ok", "ok_empty"}
        THEN [made EXCEPT !.pc = "returned",
                          !.result = first_observation(response),
                          !.cache = cache_put(@, c.key,
                                              first_observation(response))]
        ELSE IF response = "bad_body"
        THEN [made EXCEPT !.pc = "raised"]
        ELSE IF retries(response, c.attempt)
        THEN [made EXCEPT !.pc = "sleeping"]
        ELSE [made EXCEPT !.pc = "returned", !.result = NoData]

\* one row with the columns the scorer adds
with_risk(d, r) ==
    [risk_score |-> r.risk_score, risk_category |-> r.risk_category,
     uses_weather_data |-> r.uses_weather_data] @@ d

\* calculate_risk_scores(fires_gdf, use_weather): the enhanced scorer when
\* use_weather, else the base scorer
calculate_risk_scores(rows, use_weather) ==
    LET score(d) == IF use_weather THEN calculate_enhanced_risk(d)
                    ELSE calculate_base_risk(d)
    IN  [raised |-> \E i \in DOMAIN rows : score(rows[i]).raised,
         rows |-> [i \in DOMAIN rows |-> with_risk(rows[i], score(rows[i]))]]

\* the row save_buffers_to_db makes of a buffer: buffer_id and fire_id come
\* from fire_id where the frame has the column, else from risk_category,
\* else from date and rounded place
buffer_row(b, columns, buffer_km) ==
    IF "fire_id" \in columns
    THEN [buffer_id |-> <<b.fire_id, "_buffer_", buffer_km>>,
          fire_id |-> b.fire_id, buffer_km |-> buffer_km]
    ELSE IF "risk_category" \in columns
    THEN [buffer_id |-> <<b.risk_category, "_buffer_", buffer_km>>,
          fire_id |-> <<b.risk_category, "_zone">>, buffer_km |-> buffer_km]
    ELSE [buffer_id |-> <<operations_fire_id(b), "_buffer_", buffer_km>>,
          fire_id |-> operations_fire_id(b), buffer_km |-> buffer_km]

\* save_buffers_to_db(conn, buffers_gdf, buffer_km): the fire_buffers table
\* afterwards and whether the INSERT OR REPLACE raised.  fire_buffers.fire_id
\* REFERENCES fires(fire_id); enforced says whether the store rejects a
\* fire_id the fires table does not hold.
save_buffers_to_db(table, fires_table, buffers_gdf, buffer_km, enforced) ==
    IF buffers_gdf.rows = << >> THEN [raised |-> FALSE, table |-> table]
    ELSE LET rows == {buffer_row(buffers_gdf.rows[i], buffers_gdf.columns,
                                 buffer_km) : i \in DOMAIN buffers_gdf.rows}
             known == {r.fire_id : r \in fires_table}
             dangling == \E r \in rows : \A k \in known : r.fire_id # k
         IN  IF enforced /\ dangling
             THEN [raised |-> TRUE, table |-> table]
             ELSE [raised |-> FALSE,
                   table |-> {t \in table :
                                 \A r \in rows : t.buffer_id # r.buffer_id}
                               \cup rows]

\* export_for_visualization(fires_gdf, buffers_gdf, output_dir, bbox): the
\* files of data/processed afterwards, each held as the run that wrote it
\* and the number of features in it.  fire_buffers.geojson is written only
\* for a frame that is not empty.
export_for_visualization(files, df, buffers_gdf, run) ==
    [active_fires |-> [written_by |-> run, features |-> len(df)],
     fire_buffers |->
         IF buffers_gdf.rows = << >> THEN files.fire_buffers
         ELSE [written_by |-> run, features |-> Len(buffers_gdf.rows)],
     region_metadata |-> [written_by |-> run, features |-> len(df)]]

(***************************************************************************)
(* Idle values of the parts a behaviour does not exercise                  *)
(***************************************************************************)

NoOp == [name |-> "none", lookback_days |-> 0, detection_threshold |-> 0,
         grid_size_km |-> 0, connected |-> TRUE, after_identify |-> FALSE,
         repeated |-> FALSE]

NoFilterArgs == [buffer_km |-> 0, persistent_locations |-> None]

StoreIdle == fires = {}

DetectorIdle ==
    /\ persistent_locations = None
    /\ snapshot = None
    /\ ret = [isnone |-> FALSE, rows |-> << >>, raised |-> FALSE]
    /\ op = NoOp

FilterIdle ==
    /\ batch = EmptyFrame
    /\ filter_args = NoFilterArgs
    /\ filtered_fires = EmptyFrame
    /\ excluded_fires = EmptyFrame

NoBufferArgs == [buffer_km |-> 0, dissolve |-> FALSE]

NoBuffers == [raised |-> FALSE, rows |-> << >>, columns |-> {}]

BufferIdle ==
    /\ buffer_args = NoBufferArgs
    /\ buffers = NoBuffers

NoRun == [pc |-> "none", buffer_km |-> 0, use_weather |-> FALSE,
          use_aqi |-> FALSE, dissolve_buffers |-> FALSE,
          fetched |-> EmptyFrame, file |-> None, table |-> {},
          retained |-> {}, excluded |-> {}, analysed |-> FALSE,
          weather |-> << >>, air |-> << >>, lookups |-> 0, run |-> 0]

\* a file of data/processed that was never written
Absent == [written_by |-> 0, features |-> 0]

NoFiles == [active_fires |-> Absent, fire_buffers |-> Absent,
            region_metadata |-> Absent]

EtlIdle ==
    /\ etl = NoRun
    /\ fire_buffers = {}
    /\ exported = NoFiles

\* a client just made: empty cache, no call yet
NoCall == [pc |-> "idle", key |-> << >>, attempt |-> 0, requests |-> 0,
           responses |-> << >>, slept |-> << >>, result |-> NoData,
           hit |-> FALSE, cache |-> {}, cache_before |-> {}, calls |-> 0]

AirNowIdle == airnow = NoCall

(***************************************************************************)
(* Scorer inputs: one row of the frame handed to the scorer.  columns is   *)
(* the set of columns the frame has, isnull the columns whose cell in this *)
(* row is null; a null or absent cell holds the filler 0, which no         *)
(* definition reads.                                                       *)
(***************************************************************************)

\* a cell choice: <<status, value>> with status "ok", "null" or "absent"
Ok(S) == {<<"ok", x>> : x \in S}

BrightChoices == Ok({290, 350, 400, 410})

ConfidenceChoices ==
    {<<"ok", [dtype |-> "object", val |-> c]>> : c \in {"l", "n", "h"}}
    \cup {<<"ok", [dtype |-> "int64", val |-> n]>> : n \in {75, 100}}
    \cup {<<"null", [dtype |-> "float64", val |-> 0]>>}

FrpChoices == Ok({-5, 0, 250, 500, 600}) \cup {<<"null", 0>>, <<"absent", 0>>}

DaynightChoices == Ok({"D", "N"}) \cup {<<"null", "D">>}

HumidityChoices == Ok({0, 20, 120}) \cup {<<"null", 0>>, <<"absent", 0>>}

WindChoices == Ok({30, 90}) \cup {<<"null", 0>>, <<"absent", 0>>}

PrecipChoices == Ok({0, 100}) \cup {<<"null", 0>>, <<"absent", 0>>}

FireDangerChoices == Ok({50, 150}) \cup {<<"null", 0>>, <<"absent", 0>>}

\* the row made of one choice per column
Row(c) ==
    [columns |-> {k \in DOMAIN c : c[k][1] # "absent"},
     isnull |-> {k \in DOMAIN c : c[k][1] = "null"},
     bright_ti4 |-> c.bright_ti4[2],
     confidence |-> c.confidence[2],
     frp |-> c.frp[2],
     daynight |-> c.daynight[2],
     relative_humidity |-> c.relative_humidity[2],
     wind_speed_kmh |-> c.wind_speed_kmh[2],
     precip_probability |-> c.precip_probability[2],
     fire_danger_index |-> c.fire_danger_index[2]]

RowChoices ==
    [bright_ti4 : BrightChoices, confidence : ConfidenceChoices,
     frp : FrpChoices, daynight : DaynightChoices,
     relative_humidity : HumidityChoices, wind_speed_kmh : WindChoices,
     precip_probability : PrecipChoices, fire_danger_index : FireDangerChoices]

\* no call of the scorer has returned yet
NotScored == [call |-> "none", raised |-> FALSE, risk_score |-> NaN,
              risk_category |-> "NaN", uses_weather_data |-> FALSE,
              fire_danger_norm |-> NaN]

\* the row a call returns, tagged with the method called
Returned(call, r) ==
    [call |-> call, raised |-> r.raised, risk_score |-> r.risk_score,
     risk_category |-> r.risk_category,
     uses_weather_data |-> r.uses_weather_data,
     fire_danger_norm |-> r.fire_danger_norm]

\* The scorer computes in IEEE-754 doubles, the model in exact arithmetic.
\* The two give the same category except where the exact score lies on a bin
\* edge and the double lands an ulp beside it.  Rows are kept only where both
\* agree: no exact base score of 30 (0.2 + 0.1 is 0.30000000000000004 in
\* doubles) and no exact enhanced score of 30 or 60.  Every kept row with an
\* exact base score of 60 scores 60.0 in doubles as well.
AgreesWithDoubles(d) ==
    LET b == calculate_base_risk(d).risk_score
        e == calculate_enhanced_risk(d).risk_score
    IN  /\ ~b.isna => b.v # bins[2] * 1000
        /\ (has_weather(d) /\ ~e.isna)
              => e.v \notin {bins[2] * 1000, bins[3] * 1000}

InitScore ==
    /\ phase = "score"
    /\ \E c \in RowChoices : fires_gdf = Row(c) /\ AgreesWithDoubles(Row(c))
    /\ scored = NotScored
    /\ StoreIdle
    /\ DetectorIdle
    /\ FilterIdle
    /\ BufferIdle
    /\ EtlIdle
    /\ AirNowIdle

\* calculator.calculate_base_risk(fires_gdf)
CalculateBaseRisk ==
    /\ phase = "score"
    /\ scored.call = "none"
    /\ scored' = Returned("base", calculate_base_risk(fires_gdf))
    /\ UNCHANGED <<phase, airnowVars,
                   fires_gdf, storeVars, detectorVars, op, filterVars,
                   bufferVars, etlVars>>

\* calculator.calculate_enhanced_risk(fires_gdf)
CalculateEnhancedRisk ==
    /\ phase = "score"
    /\ scored.call = "none"
    /\ scored' = Returned("enhanced", calculate_enhanced_risk(fires_gdf))
    /\ UNCHANGED <<phase, airnowVars,
                   fires_gdf, storeVars, detectorVars, op, filterVars,
                   bufferVars, etlVars>>

NextScore == CalculateBaseRisk \/ CalculateEnhancedRisk

SpecScore == InitScore /\ [][NextScore]_vars

(***************************************************************************)
(* The store: saving detections                                            *)
(***************************************************************************)

\* longest frame handed to a save or to the filter
MaxBatch == 2

\* the non-empty sequences over S of at most n rows
SeqsUpTo(S, n) == UNION {[1..k -> S] : k \in 1..n}

\* detections that are saved: 0 and 4 round to the same 0.0001 degree,
\* -3 rounds to -0.0
SavedDetections ==
    {[latitude |-> p[1], longitude |-> p[2], acq_date |-> d] :
        p \in {<<-3, 0>>, <<0, 0>>, <<4, 0>>}, d \in {Today - 1, Today}}

InitStore ==
    /\ phase = "store"
    /\ fires = {}
    /\ fires_gdf = Row(CHOOSE c \in RowChoices : TRUE)
    /\ scored = NotScored
    /\ DetectorIdle
    /\ FilterIdle
    /\ BufferIdle
    /\ EtlIdle
    /\ AirNowIdle

\* save_fires_to_db(conn, fires_gdf) of src/database/operations.py
OperationsSaveFiresToDb ==
    \E df \in SeqsUpTo(SavedDetections, MaxBatch) :
        /\ fires' \in operations_save_fires_to_db(fires, df)
        /\ op' = [NoOp EXCEPT !.name = "operations.save_fires_to_db"]
        /\ UNCHANGED <<phase, airnowVars, scorerVars, detectorVars, filterVars,
                       bufferVars, etlVars>>

\* save_to_database of etl_flow: save_fires_to_db of src/database/__init__.py
DatabaseSaveFiresToDb ==
    \E df \in SeqsUpTo(SavedDetections, MaxBatch) :
        /\ fires' \in database_save_fires_to_db(fires, df)
        /\ op' = [NoOp EXCEPT !.name = "database.save_fires_to_db"]
        /\ UNCHANGED <<phase, airnowVars, scorerVars, detectorVars, filterVars,
                       bufferVars, etlVars>>

\* clear_database_task: DELETE FROM fire_buffers, DELETE FROM fires
ClearDatabase ==
    /\ fire_buffers' = clear_database_task(fire_buffers)
    /\ fires' = clear_database_task(fires)
    /\ op' = [NoOp EXCEPT !.name = "clear_database_task"]
    /\ UNCHANGED <<phase, airnowVars, scorerVars, detectorVars, filterVars,
                   bufferVars, etl, exported>>

NextStore ==
    OperationsSaveFiresToDb \/ DatabaseSaveFiresToDb \/ ClearDatabase

SpecStore == InitStore /\ [][NextStore]_vars

(***************************************************************************)
(* The detector: analysing the history                                     *)
(***************************************************************************)

\* most rows of the fires table when the history is analysed
MaxHistory == 3

\* largest detection_threshold tried
MaxThreshold == 5

\* lookback_days tried: the default 30 and a single day
LookbackChoices == {1, 30}

\* grid_size_km tried, in thousandths: the default 0.4
GridChoices == {400}

\* the history: three points near the origin, of which 0 and 4 share a grid
\* cell and -3 lies in the cell south of it, and a point one cell east; on a
\* day before the 30-day window, two days ago and today
HistoryDetections ==
    {[latitude |-> p[1], longitude |-> p[2], acq_date |-> d] :
        p \in {<<-3, 0>>, <<0, 0>>, <<4, 0>>, <<4, 40000>>},
        d \in {Today - 31, Today - 2, Today}}

\* fuller histories: two points of one grid cell seen on each of the last
\* three days, all six detections or all but one of them
ExampleHistories ==
    LET six == {[latitude |-> p[1], longitude |-> p[2], acq_date |-> d] :
                   p \in {<<0, 0>>, <<4, 0>>},
                   d \in {Today - 2, Today - 1, Today}}
    IN  {S \in SUBSET six : Cardinality(S) >= 5}

\* histories with detections dated tomorrow: acq_date is the UTC date of the
\* overpass, now the local clock of the machine
LateHistories ==
    LET three == {[latitude |-> 0, longitude |-> 0, acq_date |-> Today],
                  [latitude |-> 0, longitude |-> 0, acq_date |-> Today + 1],
                  [latitude |-> 4, longitude |-> 0, acq_date |-> Today + 1]}
    IN  SUBSET three \ {{}}

\* a history of two detections of today 0.01 degree of latitude apart,
\* which is 1.1 km on the ground
SpreadHistories ==
    {{[latitude |-> 0, longitude |-> 0, acq_date |-> Today],
      [latitude |-> 1000, longitude |-> 0, acq_date |-> Today]}}

\* the table holding the detections S, as save_to_database stores them
TableOf(S) == {TableRow(database_fire_id(d), d) : d \in S}

InitDetect ==
    /\ phase = "detect"
    /\ \E S \in {T \in SUBSET HistoryDetections : Cardinality(T) <= MaxHistory}
                 \cup ExampleHistories \cup LateHistories
                 \cup SpreadHistories :
          fires = TableOf(S)
    /\ fires_gdf = Row(CHOOSE c \in RowChoices : TRUE)
    /\ scored = NotScored
    /\ DetectorIdle
    /\ FilterIdle
    /\ BufferIdle
    /\ EtlIdle
    /\ AirNowIdle

\* filter_obj.identify_persistent_anomalies(lookback_days,
\* detection_threshold, grid_size_km); the store may be unreachable
IdentifyPersistentAnomalies ==
    \E lookback_days \in LookbackChoices,
       detection_threshold \in 1..MaxThreshold,
       grid_size_km \in GridChoices,
       connected \in BOOLEAN :
        \E result \in order_by_detection_count(
                gridded_fires(fires, lookback_days, detection_threshold,
                              grid_size_km)) :
            LET out == identify_persistent_anomalies(
                           persistent_locations, connected, result)
            IN  /\ persistent_locations' = out.stored
                /\ ret' = [isnone |-> FALSE, rows |-> out.returned.rows,
                           raised |-> out.raised]
                /\ op' = [name |-> "identify_persistent_anomalies",
                          lookback_days |-> lookback_days,
                          detection_threshold |-> detection_threshold,
                          grid_size_km |-> grid_size_km,
                          connected |-> connected,
                          after_identify |-> FALSE,
                          repeated |-> FALSE]
                /\ UNCHANGED <<phase, airnowVars,
                               scorerVars, storeVars, snapshot,
                               filterVars,
                               bufferVars, etlVars>>

\* filter_obj.save_persistent_locations()
SavePersistentLocations ==
    /\ snapshot' = save_persistent_locations(persistent_locations, snapshot)
    /\ op' = [op EXCEPT !.name = "save_persistent_locations",
                        !.after_identify =
                            (op.name = "identify_persistent_anomalies")]
    /\ UNCHANGED <<phase, airnowVars,
                   scorerVars, storeVars, persistent_locations, ret,
                   filterVars,
                   bufferVars, etlVars>>

\* filter_obj.load_persistent_locations()
LoadPersistentLocations ==
    /\ persistent_locations' = load_persistent_locations(snapshot)
    /\ op' = [NoOp EXCEPT !.name = "load_persistent_locations"]
    /\ UNCHANGED <<phase, airnowVars,
                   scorerVars, storeVars, snapshot, ret, filterVars,
                   bufferVars, etlVars>>

\* IndustrialHeatFilter(db_path): a new filter object
NewIndustrialHeatFilter ==
    /\ persistent_locations' = None
    /\ op' = [NoOp EXCEPT !.name = "__init__"]
    /\ UNCHANGED <<phase, airnowVars,
                   scorerVars, storeVars, snapshot, ret, filterVars,
                   bufferVars, etlVars>>

NextDetect ==
    \/ IdentifyPersistentAnomalies
    \/ SavePersistentLocations
    \/ LoadPersistentLocations
    \/ NewIndustrialHeatFilter
    \/ ClearDatabase

SpecDetect == InitDetect /\ [][NextDetect]_vars

(***************************************************************************)
(* The filter: partitioning a batch of live detections                     *)
(***************************************************************************)

\* a persistent location as the detector returns it, centred on (lat, lon)
LocationAt(lat, lon, detection_count) ==
    [grid_lat |-> snap(lat, grid_step(400)),
     grid_lon |-> snap(lon, grid_step(400)),
     latitude |-> lat, longitude |-> lon,
     detection_count |-> detection_count, unique_days |-> 3,
     first_detection |-> Today - 2, last_detection |-> Today,
     detections_per_day |-> detections_per_day(detection_count, 3)]

LocationA == LocationAt(0, 0, 6)
LocationB == LocationAt(5000, 960, 5)

\* what self.persistent_locations holds when filter_fires is called
StoredChoices == {None, EmptyFrame, Frame(<<LocationA>>), Frame(<<LocationB>>)}

\* the persistent_locations argument of filter_fires
PassedChoices ==
    {None, EmptyFrame, Frame(<<LocationA>>), Frame(<<LocationA, LocationB>>)}

\* buffer_km tried, in tenths: the default 0.5 and the 1.0 of the ETL flow
BufferChoices == {5, 10}

\* live detections: 300 m and 5 km north of LocationA, 960 m east of it, and
\* 300 m north and 960 m east (1006 m away)
LiveDetections ==
    {[latitude |-> p[1], longitude |-> p[2], acq_date |-> Today] :
        p \in {<<300, 0>>, <<5000, 0>>, <<0, 960>>, <<300, 960>>}}

\* the rows of a frame with the pandas index as a column
Indexed(q) ==
    [i \in DOMAIN q |->
        [index |-> i, latitude |-> q[i].latitude,
         longitude |-> q[i].longitude, acq_date |-> q[i].acq_date]]

InitFilter ==
    /\ phase = "filter"
    /\ \E q \in SeqsUpTo(LiveDetections, MaxBatch) : batch = Frame(Indexed(q))
    /\ persistent_locations \in StoredChoices
    /\ snapshot = None
    /\ ret = [isnone |-> FALSE, rows |-> << >>, raised |-> FALSE]
    /\ op = NoOp
    /\ filter_args = NoFilterArgs
    /\ filtered_fires = EmptyFrame
    /\ excluded_fires = EmptyFrame
    /\ fires_gdf = Row(CHOOSE c \in RowChoices : TRUE)
    /\ scored = NotScored
    /\ StoreIdle
    /\ BufferIdle
    /\ EtlIdle
    /\ AirNowIdle

\* filter_obj.filter_fires(fires_gdf, buffer_km, persistent_locations)
FilterFires ==
    \E buffer_km \in BufferChoices, passed \in PassedChoices :
        LET out == filter_fires(persistent_locations, batch, buffer_km, passed)
            args == [buffer_km |-> buffer_km, persistent_locations |-> passed]
        IN  /\ filtered_fires' = out[1]
            /\ excluded_fires' = out[2]
            /\ filter_args' = args
            /\ batch' = fires_gdf_after_filter(batch, out)
            /\ persistent_locations' =
                  self_locations_after_filter(persistent_locations, passed)
            /\ op' = [NoOp EXCEPT !.name = "filter_fires",
                                  !.repeated = (/\ op.name = "filter_fires"
                                                /\ filter_args = args)]
            /\ UNCHANGED <<phase, airnowVars,
                           scorerVars, storeVars, snapshot, ret,
                           bufferVars, etlVars>>

NextFilter == FilterFires

SpecFilter == InitFilter /\ [][NextFilter]_vars

(***************************************************************************)
(* The buffers: zones around a batch of scored detections                  *)
(***************************************************************************)

\* longest frame handed to create_risk_buffers
MaxBuffered == 3

\* scored detections: two places, each category and an undefined category
BufferedDetections ==
    {[latitude |-> p[1], longitude |-> p[2], acq_date |-> Today,
      risk_category |-> c,
      fire_id |-> operations_fire_id(
                      [latitude |-> p[1], longitude |-> p[2],
                       acq_date |-> Today])] :
        p \in {<<300, 0>>, <<5000, 0>>},
        c \in {"Low", "Moderate", "High", "NaN"}}

\* the columns of the frames handed over, with and without a fire_id and
\* with and without a risk_category
BufferedColumns ==
    {{"latitude", "longitude", "acq_date", "geometry"} \cup extra :
        extra \in SUBSET {"fire_id", "risk_category"}}

\* buffer_km tried, in tenths: the 5.0 of the ETL flow and the default 10
RiskBufferChoices == {50, 100}

InitBuffers ==
    /\ phase = "buffers"
    /\ \E q \in SeqsUpTo(BufferedDetections, MaxBuffered),
          columns \in BufferedColumns :
            batch = [isnone |-> FALSE, rows |-> q, columns |-> columns]
    /\ filter_args = NoFilterArgs
    /\ filtered_fires = EmptyFrame
    /\ excluded_fires = EmptyFrame
    /\ fires_gdf = Row(CHOOSE c \in RowChoices : TRUE)
    /\ scored = NotScored
    /\ StoreIdle
    /\ DetectorIdle
    /\ BufferIdle
    /\ EtlIdle
    /\ AirNowIdle

\* calculator.create_risk_buffers(fires_gdf, buffer_km, dissolve)
CreateRiskBuffers ==
    \E buffer_km \in RiskBufferChoices, dissolve \in BOOLEAN :
        /\ buffers' = create_risk_buffers(batch, buffer_km, dissolve)
        /\ buffer_args' = [buffer_km |-> buffer_km, dissolve |-> dissolve]
        /\ op' = [NoOp EXCEPT !.name = "create_risk_buffers"]
        /\ UNCHANGED <<phase, airnowVars,
                       scorerVars, storeVars, detectorVars, filterVars,
                       etlVars>>

NextBuffers == CreateRiskBuffers

SpecBuffers == InitBuffers /\ [][NextBuffers]_vars

(***************************************************************************)
(* The ETL flow: runs of wildfire_etl_flow, task by task                   *)
(***************************************************************************)

\* most detections a fetch returns
MaxFetched == 2

\* a detection as FIRMS delivers it: place, date and the four base fields
Fetched(lat, lon, bright_ti4, confidence, frp, daynight) ==
    [latitude |-> lat, longitude |-> lon, acq_date |-> Today] @@
    Row([bright_ti4 |-> <<"ok", bright_ti4>>,
         confidence |-> <<"ok", [dtype |-> "object", val |-> confidence]>>,
         frp |-> <<"ok", frp>>,
         daynight |-> <<"ok", daynight>>,
         relative_humidity |-> <<"absent", 0>>,
         wind_speed_kmh |-> <<"absent", 0>>,
         precip_probability |-> <<"absent", 0>>,
         fire_danger_index |-> <<"absent", 0>>])

\* a record whose acq_date came empty in the feed: read_csv makes the cell
\* NaN and the frame keeps the row
WithoutDate(d) ==
    [d EXCEPT !.acq_date = 0, !.isnull = @ \cup {"acq_date"}]

\* the detections fetched: one 300 m and one 3 km north of LocationA, and
\* the latter without its acquisition date
FetchedDetections ==
    {Fetched(300, 0, 400, "h", 500, "N"), Fetched(3000, 0, 350, "n", 250, "D"),
     WithoutDate(Fetched(3000, 0, 350, "n", 250, "D"))}

\* the rows of a fetched frame with the pandas index as a column
WithIndex(q) == [i \in DOMAIN q |-> [index |-> i] @@ q[i]]

\* detections of earlier runs in the fires table: two days at LocationA
EarlierDetections ==
    {[latitude |-> 0, longitude |-> 0, acq_date |-> Today - 2],
     [latitude |-> 4, longitude |-> 0, acq_date |-> Today - 1]}

\* buffer_km of the flow tried, in tenths: 2.0 and the default 5.0
FlowBufferChoices == {20, 50}

\* how a weather lookup can end
WeatherOutcomes == {"ok", "failed"}

\* how an AirNow lookup can end
AirOutcomes == {"ok", "http_error", "bad_body"}

\* the columns of the scored frame create_buffers receives
ScoredColumns ==
    {"latitude", "longitude", "acq_date", "geometry", "bright_ti4",
     "confidence", "frp", "daynight", "risk_score", "risk_category"}

\* most runs of the flow in a behaviour
MaxRuns == 2

\* wildfire_etl_flow called with its arguments, as run number n
Run(n, buffer_km, use_weather, use_aqi) ==
    [NoRun EXCEPT !.pc = "start", !.buffer_km = buffer_km,
                  !.use_weather = use_weather, !.use_aqi = use_aqi,
                  !.dissolve_buffers = TRUE, !.run = n]

InitEtl ==
    /\ phase = "etl"
    /\ \E buffer_km \in FlowBufferChoices,
          use_weather \in BOOLEAN, use_aqi \in BOOLEAN :
            etl = Run(1, buffer_km, use_weather, use_aqi)
    /\ fire_buffers = {}
    /\ exported = NoFiles
    /\ fires \in {{}, TableOf(EarlierDetections)}
    /\ snapshot \in {None, Frame(<<LocationA>>)}
    /\ persistent_locations = None
    /\ ret = [isnone |-> FALSE, rows |-> << >>, raised |-> FALSE]
    /\ op = NoOp
    /\ fires_gdf = Row(CHOOSE c \in RowChoices : TRUE)
    /\ scored = NotScored
    /\ FilterIdle
    /\ BufferIdle
    /\ AirNowIdle

\* clear_database_task(db_path)
ClearDatabaseTask ==
    /\ etl.pc = "start"
    /\ fire_buffers' = clear_database_task(fire_buffers)
    /\ fires' = clear_database_task(fires)
    /\ etl' = [etl EXCEPT !.pc = "cleared"]
    /\ op' = [NoOp EXCEPT !.name = "clear_database_task"]
    /\ UNCHANGED <<phase, airnowVars,
                   scorerVars, detectorVars, filterVars, bufferVars,
                   exported>>

\* fetch_active_fires(api_key, days_back, bbox); the flow returns None when
\* nothing was fetched
FetchActiveFires ==
    /\ etl.pc = "cleared"
    /\ \E q \in SeqsUpTo(FetchedDetections, MaxFetched) \cup {<< >>} :
          /\ batch' = Frame(WithIndex(q))
          /\ etl' = [etl EXCEPT !.pc = IF no_fires(Frame(WithIndex(q)))
                                       THEN "returned_none" ELSE "fetched",
                                !.fetched = Frame(WithIndex(q))]
    /\ op' = [NoOp EXCEPT !.name = "fetch_active_fires"]
    /\ UNCHANGED <<phase, airnowVars,
                   scorerVars, storeVars, detectorVars, filter_args,
                   filtered_fires, excluded_fires, bufferVars,
                   fire_buffers, exported>>

\* filter_industrial_sources(fires, db_path); the flow returns None when no
\* detection remains
FilterIndustrialSources ==
    /\ etl.pc = "fetched"
    /\ \E out \in filter_industrial_sources(batch, snapshot, fires,
                                             etl.buffer_km) :
          /\ batch' = out.fires
          /\ filtered_fires' = out.fires
          /\ excluded_fires' = out.excluded
          /\ filter_args' = out.args
          /\ persistent_locations' = out.stored
          /\ snapshot' = out.file
          /\ etl' = [etl EXCEPT
                       !.pc = IF no_fires(out.fires) THEN "returned_none"
                              ELSE "filtered",
                       !.file = snapshot,
                       !.table = fires,
                       !.retained = {out.fires.rows[i].index :
                                        i \in DOMAIN out.fires.rows},
                       !.excluded = {out.excluded.rows[i].index :
                                        i \in DOMAIN out.excluded.rows},
                       !.analysed = out.analysed]
    /\ op' = [NoOp EXCEPT !.name = "filter_industrial_sources"]
    /\ UNCHANGED <<phase, airnowVars, scorerVars, storeVars, ret, bufferVars,
                   fire_buffers, exported>>

\* enrich_with_weather(fires), when use_weather
EnrichWithWeather ==
    /\ etl.pc = "filtered"
    /\ etl.use_weather
    /\ \E outcomes \in [DOMAIN batch.rows -> WeatherOutcomes] :
          /\ batch' = Frame(enrich_fires_with_weather(batch.rows, outcomes))
          /\ etl' = [etl EXCEPT !.pc = "weather", !.weather = outcomes]
    /\ op' = [NoOp EXCEPT !.name = "enrich_with_weather"]
    /\ UNCHANGED <<phase, airnowVars,
                   scorerVars, storeVars, detectorVars, filter_args,
                   filtered_fires, excluded_fires, bufferVars,
                   fire_buffers, exported>>

\* enrich_with_aqi(fires, airnow_api_key), when use_aqi and the key is set;
\* an exception that leaves the task ends the flow
EnrichWithAqi ==
    /\ etl.use_aqi
    /\ \/ etl.pc = "weather"
       \/ etl.pc = "filtered" /\ ~etl.use_weather
    /\ \E outcomes \in [DOMAIN batch.rows -> AirOutcomes] :
          LET st == enrich_fires_with_aqi(batch.rows, outcomes)
          IN  /\ batch' = IF st.raised THEN batch ELSE Frame(st.rows)
              /\ etl' = [etl EXCEPT
                           !.pc = IF st.raised THEN "aborted" ELSE "aqi",
                           !.air = outcomes,
                           !.lookups = st.lookups]
    /\ op' = [NoOp EXCEPT !.name = "enrich_with_aqi"]
    /\ UNCHANGED <<phase, airnowVars,
                   scorerVars, storeVars, detectorVars, filter_args,
                   filtered_fires, excluded_fires, bufferVars,
                   fire_buffers, exported>>

\* calculate_risk_scores(fires, use_weather=use_weather)
CalculateRiskScores ==
    /\ \/ etl.pc = "aqi"
       \/ etl.pc = "weather" /\ ~etl.use_aqi
       \/ etl.pc = "filtered" /\ ~etl.use_weather /\ ~etl.use_aqi
    /\ LET out == calculate_risk_scores(batch.rows, etl.use_weather)
       IN  /\ batch' = IF out.raised THEN batch ELSE Frame(out.rows)
           /\ etl' = [etl EXCEPT
                        !.pc = IF out.raised THEN "aborted" ELSE "scored"]
    /\ op' = [NoOp EXCEPT !.name = "calculate_risk_scores"]
    /\ UNCHANGED <<phase, airnowVars,
                   scorerVars, storeVars, detectorVars, filter_args,
                   filtered_fires, excluded_fires, bufferVars,
                   fire_buffers, exported>>

\* create_buffers(fires_with_risk, buffer_km, dissolve_buffers)
CreateBuffers ==
    /\ etl.pc = "scored"
    /\ buffers' = create_risk_buffers(
                      [isnone |-> FALSE, rows |-> batch.rows,
                       columns |-> ScoredColumns],
                      etl.buffer_km, etl.dissolve_buffers)
    /\ buffer_args' = [buffer_km |-> etl.buffer_km,
                       dissolve |-> etl.dissolve_buffers]
    /\ etl' = [etl EXCEPT !.pc = "buffered"]
    /\ op' = [NoOp EXCEPT !.name = "create_buffers"]
    /\ UNCHANGED <<phase, airnowVars,
                   scorerVars, storeVars, detectorVars, filterVars,
                   fire_buffers, exported>>

\* save_to_database(fires_with_risk, db_path)
SaveToDatabase ==
    /\ etl.pc = "buffered"
    /\ fires' \in database_save_fires_to_db(fires, batch.rows)
    /\ etl' = [etl EXCEPT !.pc = "saved"]
    /\ op' = [NoOp EXCEPT !.name = "save_to_database"]
    /\ UNCHANGED <<phase, airnowVars,
                   scorerVars, detectorVars, filterVars, bufferVars,
                   fire_buffers, exported>>

\* save_buffers_to_database(buffers, db_path, buffer_km); an exception that
\* leaves the task ends the flow
SaveBuffersToDatabase ==
    /\ etl.pc = "saved"
    /\ \E enforced \in BOOLEAN :
          LET out == save_buffers_to_db(fire_buffers, fires, buffers,
                                        etl.buffer_km, enforced)
          IN  /\ fire_buffers' = out.table
              /\ etl' = [etl EXCEPT !.pc = IF out.raised THEN "save_failed"
                                           ELSE "buffers_saved"]
    /\ op' = [NoOp EXCEPT !.name = "save_buffers_to_database"]
    /\ UNCHANGED <<phase, airnowVars,
                   scorerVars, storeVars, detectorVars, filterVars,
                   bufferVars, exported>>

\* export_for_visualization(fires_with_risk, buffers, "data/processed", bbox)
ExportForVisualization ==
    /\ etl.pc = "buffers_saved"
    /\ exported' = export_for_visualization(exported, batch, buffers, etl.run)
    /\ etl' = [etl EXCEPT !.pc = "exported"]
    /\ op' = [NoOp EXCEPT !.name = "export_for_visualization"]
    /\ UNCHANGED <<phase, airnowVars,
                   scorerVars, storeVars, detectorVars, filterVars,
                   bufferVars, fire_buffers>>

\* wildfire_etl_flow called again after a run that returned or failed; the
\* frames and the filter object of the run before are gone, the store, the
\* snapshot and the exported files stay
WildfireEtlFlow ==
    /\ etl.pc \in {"returned_none", "aborted", "save_failed", "exported"}
    /\ etl.run < MaxRuns
    /\ \E buffer_km \in FlowBufferChoices,
          use_weather \in BOOLEAN, use_aqi \in BOOLEAN :
            etl' = Run(etl.run + 1, buffer_km, use_weather, use_aqi)
    /\ persistent_locations' = None
    /\ batch' = EmptyFrame
    /\ filter_args' = NoFilterArgs
    /\ filtered_fires' = EmptyFrame
    /\ excluded_fires' = EmptyFrame
    /\ buffer_args' = NoBufferArgs
    /\ buffers' = NoBuffers
    /\ op' = [NoOp EXCEPT !.name = "wildfire_etl_flow"]
    /\ UNCHANGED <<phase, airnowVars,
                   scorerVars, storeVars, snapshot, ret, fire_buffers,
                   exported>>

NextEtl ==
    \/ ClearDatabaseTask
    \/ FetchActiveFires
    \/ FilterIndustrialSources
    \/ EnrichWithWeather
    \/ EnrichWithAqi
    \/ CalculateRiskScores
    \/ CreateBuffers
    \/ SaveToDatabase
    \/ SaveBuffersToDatabase
    \/ ExportForVisualization
    \/ WildfireEtlFlow

SpecEtl == InitEtl /\ [][NextEtl]_vars

(***************************************************************************)
(* The AirNow client: calls of get_current_observation, attempt by attempt *)
(***************************************************************************)

\* most calls of get_current_observation in a behaviour
MaxCalls == 3

\* the places asked about
Places ==
    {[latitude |-> 300, longitude |-> 0], [latitude |-> 3000, longitude |-> 0]}

InitAirNow ==
    /\ phase = "airnow"
    /\ airnow = NoCall
    /\ fires_gdf = Row(CHOOSE c \in RowChoices : TRUE)
    /\ scored = NotScored
    /\ StoreIdle
    /\ DetectorIdle
    /\ FilterIdle
    /\ BufferIdle
    /\ EtlIdle

\* get_current_observation(latitude, longitude) up to the loop: a cached
\* entry that _is_cache_valid accepts is returned without a request
GetCurrentObservation ==
    /\ airnow.pc \in {"idle", "returned", "raised"}
    /\ airnow.calls < MaxCalls
    /\ \E d \in Places, valid \in BOOLEAN :
          LET key == cache_key(d)
              call == [NoCall EXCEPT !.key = key, !.cache = airnow.cache,
                                     !.cache_before = airnow.cache,
                                     !.calls = airnow.calls + 1]
          IN  \/ \E e \in airnow.cache :
                    /\ e[1] = key
                    /\ valid
                    /\ airnow' = [call EXCEPT !.pc = "returned",
                                              !.result = e[2],
                                              !.hit = TRUE]
              \/ /\ ~(valid /\ \E e \in airnow.cache : e[1] = key)
                 /\ airnow' = [call EXCEPT !.pc = "request"]
    /\ UNCHANGED <<phase, scorerVars, storeVars, detectorVars, op, filterVars,
                   bufferVars, etlVars>>

\* httpx.get, raise_for_status, response.json() and the except clauses of
\* one attempt
HttpGet ==
    /\ airnow.pc = "request"
    /\ \E response \in Responses : airnow' = attempt_once(airnow, response)
    /\ UNCHANGED <<phase, scorerVars, storeVars, detectorVars, op, filterVars,
                   bufferVars, etlVars>>

\* time.sleep(wait_time); continue
Sleep ==
    /\ airnow.pc = "sleeping"
    /\ airnow' = [airnow EXCEPT !.pc = "request",
                                !.slept = Append(@, wait_time(airnow.attempt)),
                                !.attempt = @ + 1]
    /\ UNCHANGED <<phase, scorerVars, storeVars, detectorVars, op, filterVars,
                   bufferVars, etlVars>>

NextAirNow == GetCurrentObservation \/ HttpGet \/ Sleep

SpecAirNow == InitAirNow /\ [][NextAirNow]_vars

\* a request returns within its timeout of 10 s and a sleep ends
SpecAirNowFair ==
    SpecAirNow /\ WF_vars(HttpGet) /\ WF_vars(Sleep)

(***************************************************************************)
(* Properties of the risk scorer                                           *)
(***************************************************************************)

\* a scorer call has returned a row with a numeric score
HasScore == scored.call # "none" /\ ~scored.raised /\ ~scored.risk_score.isna

\* C5: every scored detection, in either mode, is Low iff its score is in
\* [0,30), Moderate iff in [30,60), High iff in [60,100]; a score of exactly
\* 30 is Moderate and a score of exactly 60 is High.
C5_CategoryBoundaries ==
    HasScore =>
        LET s == scored.risk_score.v
        IN  /\ scored.risk_category = "Low" <=> (0 <= s /\ s < 30000)
            /\ scored.risk_category = "Moderate" <=> (30000 <= s /\ s < 60000)
            /\ scored.risk_category = "High" <=> (60000 <= s /\ s <= 100000)

\* C6: every detection handed to either scorer gets exactly one category of
\* Low, Moderate, High; the call does not raise and leaves neither the score
\* nor the category undefined when an optional field is missing or null.
C6_AlwaysCategorised ==
    scored.call # "none" =>
        /\ ~scored.raised
        /\ ~scored.risk_score.isna
        /\ scored.risk_category \in {"Low", "Moderate", "High"}

\* the [0,1] clip of a value held in thousandths
Clip01(x) == IF x < 0 THEN 0 ELSE IF x > 1000 THEN 1000 ELSE x

\* the row has every base field, none of them null
BaseFieldsPresent ==
    /\ BaseColumns \subseteq fires_gdf.columns
    /\ fires_gdf.isnull \cap BaseColumns = {}

\* C7: in base mode risk_score = 100 * (0.3 brightness + 0.2 confidence +
\* 0.3 frp + 0.2 daynight) with the four norms of the spec; a detection with
\* bright_temp 400, confidence h, frp 500 at night scores 100 and is High.
C7_BaseFormula ==
    (scored.call = "base" /\ BaseFieldsPresent) =>
        LET d == fires_gdf
            b == Clip01((d.bright_ti4 - 300) * 10)
            c == IF d.confidence.dtype = "object"
                 THEN (IF d.confidence.val = "l" THEN 330
                       ELSE IF d.confidence.val = "n" THEN 660 ELSE 1000)
                 ELSE d.confidence.val * 10
            f == Clip01(d.frp * 2)
            n == IF d.daynight = "D" THEN 500 ELSE 1000
        IN  /\ ~scored.raised
            /\ scored.risk_score = Num(30 * b + 20 * c + 30 * f + 20 * n)
            /\ (d.bright_ti4 = 400 /\ d.confidence.dtype = "object"
                /\ d.confidence.val = "h" /\ d.frp = 500 /\ d.daynight = "N")
                 => (scored.risk_score = Num(100000)
                     /\ scored.risk_category = "High")

\* C7 witness: the base scorer has scored the 400 K / h / 500 MW / night row
C7_Witness ==
    /\ scored.call = "base"
    /\ BaseFieldsPresent
    /\ fires_gdf.bright_ti4 = 400
    /\ fires_gdf.confidence.dtype = "object"
    /\ fires_gdf.confidence.val = "h"
    /\ fires_gdf.frp = 500
    /\ fires_gdf.daynight = "N"
    /\ scored.risk_score = Num(100000)

\* the batch lacks the humidity, wind speed or precipitation column
LacksWeather == ~(WeatherColumns \subseteq fires_gdf.columns)

\* C12: calculate_enhanced_risk on a batch that lacks the humidity, wind
\* speed or precipitation probability field returns what calculate_base_risk
\* returns on it: the same risk_score and risk_category, computed with the
\* base weights.
C12_FallbackIsBase ==
    (scored.call = "enhanced" /\ LacksWeather) =>
        LET base == calculate_base_risk(fires_gdf)
        IN  /\ scored.raised = base.raised
            /\ scored.risk_score = base.risk_score
            /\ scored.risk_category = base.risk_category
            /\ scored.uses_weather_data = FALSE
            /\ BaseFieldsPresent =>
                  scored.risk_score = WeightedSum(
                      [brightness |-> brightness_norm(fires_gdf),
                       confidence |-> confidence_norm(fires_gdf),
                       frp |-> frp_norm(fires_gdf),
                       daynight |-> daynight_norm(fires_gdf)],
                      [brightness |-> 30, confidence |-> 20, frp |-> 30,
                       daynight |-> 20])

\* C12 witness: the enhanced scorer has scored a row that has wind speed and
\* precipitation probability but no humidity column
C12_Witness ==
    /\ scored.call = "enhanced"
    /\ BaseFieldsPresent
    /\ "relative_humidity" \notin fires_gdf.columns
    /\ {"wind_speed_kmh", "precip_probability"} \subseteq fires_gdf.columns
    /\ fires_gdf.isnull = {}
    /\ ~scored.risk_score.isna
    /\ scored.risk_category \in {"Low", "Moderate", "High"}

\* the enhanced scorer has scored a row with the three weather columns
EnhancedMode ==
    /\ scored.call = "enhanced"
    /\ WeatherColumns \subseteq fires_gdf.columns
    /\ ~scored.raised

\* the row carries a fire danger index
FireDangerPresent ==
    /\ "fire_danger_index" \in fires_gdf.columns
    /\ "fire_danger_index" \notin fires_gdf.isnull

\* C14: in enhanced mode fire_danger_norm of a detection is
\* clip(fire_danger_index / 100, 0, 1) when the detection's fire danger index
\* is present and the neutral 0.5 when it is not.
C14_FireDangerNeutralWhenMissing ==
    EnhancedMode =>
        scored.fire_danger_norm =
            IF FireDangerPresent
            THEN Num(Clip01(fires_gdf.fire_danger_index * 10))
            ELSE Num(500)

\* the sum of the weights of a mode, in hundredths
WeightTotal(w) ==
    LET RECURSIVE Sum(_)
        Sum(ks) == IF ks = {} THEN 0
                   ELSE LET k == CHOOSE k \in ks : TRUE
                        IN  w[k] + Sum(ks \ {k})
    IN  Sum(DOMAIN w)

\* a normalised feature is undefined or lies in [0, 1]
InUnitRange(x) == x.isna \/ (0 <= x.v /\ x.v <= 1000)

\* C15: in both modes the weights sum to 1.0, every normalised feature lies
\* in [0, 1] and so every risk_score lies in [0, 100], for categorical and
\* for numeric confidence alike.
C15_ConvexCombination ==
    /\ WeightTotal(weights) = 100
    /\ WeightTotal(enhanced_weights) = 100
    /\ \A k \in DOMAIN weights : weights[k] >= 0
    /\ \A k \in DOMAIN enhanced_weights : enhanced_weights[k] >= 0
    /\ (scored.call # "none" /\ ~scored.raised) =>
          /\ InUnitRange(brightness_norm(fires_gdf))
          /\ InUnitRange(confidence_norm(fires_gdf))
          /\ InUnitRange(frp_norm(fires_gdf))
          /\ InUnitRange(daynight_norm(fires_gdf))
    /\ EnhancedMode =>
          /\ InUnitRange(humidity_norm(fires_gdf))
          /\ InUnitRange(wind_norm(fires_gdf))
          /\ InUnitRange(precip_norm(fires_gdf))
          /\ InUnitRange(scored.fire_danger_norm)
    /\ HasScore => (0 <= scored.risk_score.v /\ scored.risk_score.v <= 100000)

\* C15 witness: the enhanced scorer has given the top score of 100 to a row
\* with numeric confidence whose brightness, radiative power, wind, humidity
\* and fire danger all lie beyond the clipping range
C15_Witness ==
    /\ EnhancedMode
    /\ fires_gdf.isnull = {}
    /\ FireDangerPresent
    /\ fires_gdf.confidence.dtype = "int64"
    /\ fires_gdf.bright_ti4 > 400
    /\ fires_gdf.frp > 500
    /\ fires_gdf.wind_speed_kmh > 60
    /\ fires_gdf.fire_danger_index > 100
    /\ scored.risk_score = Num(100000)

\* the row with another radiative power
WithFrp(d, f) == [d EXCEPT !.frp = f]

\* the score the method last called gives row d
ScoreOf(d) ==
    IF scored.call = "base" THEN calculate_base_risk(d).risk_score
    ELSE calculate_enhanced_risk(d).risk_score

\* radiative powers compared with the one of the row scored
FrpRange == {-5, 0, 250, 500, 600}

\* C16: of two detections that differ only in frp the one with the larger
\* frp has the greater or equal risk_score, in base and in enhanced mode;
\* above 500 and at or below 0 the score stays constant.
C16_FrpMonotone ==
    (HasScore /\ "frp" \notin fires_gdf.isnull) =>
        \A f \in FrpRange :
            LET other == ScoreOf(WithFrp(fires_gdf, f))
            IN  /\ ~other.isna
                /\ f >= fires_gdf.frp => other.v >= scored.risk_score.v
                /\ f <= fires_gdf.frp => other.v <= scored.risk_score.v
                /\ (f >= 500 /\ fires_gdf.frp >= 500)
                      => other.v = scored.risk_score.v
                /\ (f <= 0 /\ fires_gdf.frp <= 0)
                      => other.v = scored.risk_score.v

\* C16 witness: the enhanced scorer has scored a row of 250 MW, and the same
\* row with 500 MW scores strictly more
C16_Witness ==
    /\ EnhancedMode
    /\ HasScore
    /\ "frp" \notin fires_gdf.isnull
    /\ fires_gdf.frp = 250
    /\ ScoreOf(WithFrp(fires_gdf, 500)).v > scored.risk_score.v

(***************************************************************************)
(* Properties of the industrial spatial filter                             *)
(***************************************************************************)

\* the pandas index labels of the rows of a frame
Indices(f) == {f.rows[i].index : i \in DOMAIN f.rows}

\* C1: filter_fires puts every detection of the batch in exactly one of
\* retained and excluded: the two are disjoint and their lengths add up to
\* the length of the batch, with and without persistent locations.
C1_Partition ==
    op.name = "filter_fires" =>
        /\ Indices(filtered_fires) \cap Indices(excluded_fires) = {}
        /\ Indices(filtered_fires) \cup Indices(excluded_fires)
             = DOMAIN batch.rows
        /\ len(filtered_fires) + len(excluded_fires) = len(batch)
        /\ \A f \in {filtered_fires, excluded_fires} :
              \A i \in DOMAIN f.rows : f.rows[i] = batch.rows[f.rows[i].index]

\* the locations filter_fires works with: those passed, else those stored
LocationsInEffect ==
    IF filter_args.persistent_locations.isnone THEN persistent_locations
    ELSE filter_args.persistent_locations

\* C1 witness: a call with persistent locations that retained one detection
\* and excluded another
C1_Witness ==
    /\ op.name = "filter_fires"
    /\ ~LocationsInEffect.isnone
    /\ len(LocationsInEffect) > 0
    /\ len(filtered_fires) > 0
    /\ len(excluded_fires) > 0

Dist2(d, l) ==
    (d.latitude - l.latitude) * (d.latitude - l.latitude)
    + (d.longitude - l.longitude) * (d.longitude - l.longitude)

\* d lies within buffer_km (in tenths of a km) of a location of P
NearSome(d, P, buffer_km) ==
    \E i \in DOMAIN P.rows :
        Dist2(d, P.rows[i]) < (buffer_km * 100) * (buffer_km * 100)

\* C2: with a non-empty set P, a detection is excluded iff it lies within
\* buffer_km of at least one location of P and retained otherwise; with a
\* 1.0 km buffer a detection 0.3 km from a location is excluded and one
\* 5 km from every location is retained.
C2_ExcludedIffNear ==
    (/\ op.name = "filter_fires"
     /\ ~LocationsInEffect.isnone
     /\ len(LocationsInEffect) > 0) =>
        \A i \in DOMAIN batch.rows :
            LET d == batch.rows[i]
                near == NearSome(d, LocationsInEffect, filter_args.buffer_km)
            IN  /\ i \in Indices(excluded_fires) <=> near
                /\ i \in Indices(filtered_fires) <=> ~near

\* C2 witness: 1.0 km buffer around LocationA alone; the detection 300 m
\* away was excluded, the one 5 km away retained
C2_Witness ==
    /\ op.name = "filter_fires"
    /\ filter_args.buffer_km = 10
    /\ LocationsInEffect = Frame(<<LocationA>>)
    /\ \E i \in DOMAIN excluded_fires.rows :
          /\ excluded_fires.rows[i].latitude = 300
          /\ excluded_fires.rows[i].longitude = 0
    /\ \E i \in DOMAIN filtered_fires.rows :
          /\ filtered_fires.rows[i].latitude = 5000
          /\ filtered_fires.rows[i].longitude = 0

\* C10: with no persistent locations in effect (none passed and none stored,
\* or an empty frame) filter_fires returns the whole batch as retained and
\* an empty excluded frame.
C10_DisabledReturnsBatch ==
    (/\ op.name = "filter_fires"
     /\ (LocationsInEffect.isnone \/ len(LocationsInEffect) = 0)) =>
        /\ filtered_fires = batch
        /\ len(excluded_fires) = 0

\* C10 witness: a call with nothing passed and nothing stored
C10_Witness ==
    /\ op.name = "filter_fires"
    /\ filter_args.persistent_locations.isnone
    /\ persistent_locations.isnone
    /\ filtered_fires = batch
    /\ len(batch) > 0

(***************************************************************************)
(* Properties of the risk buffers                                          *)
(***************************************************************************)

\* create_risk_buffers has returned the zones of a dissolve=True call
Dissolved ==
    /\ op.name = "create_risk_buffers"
    /\ buffer_args.dissolve
    /\ ~buffers.raised

\* the risk categories the rows of the batch have
CategoriesPresent ==
    {batch.rows[i].risk_category : i \in DOMAIN batch.rows}
        \cap {"Low", "Moderate", "High"}

\* C17: create_risk_buffers with dissolve=True returns one polygon per
\* distinct risk_category present in the batch: at most as many as there
\* are categories present (at most 3), exactly 3 for a batch with all three
\* categories, 0 for an empty batch.
C17_OneZonePerCategoryPresent ==
    Dissolved =>
        /\ Len(buffers.rows) <= Cardinality(CategoriesPresent)
        /\ Len(buffers.rows) <= 3
        /\ Cardinality(CategoriesPresent) = 3 => Len(buffers.rows) = 3
        /\ len(batch) = 0 => Len(buffers.rows) = 0
        /\ {buffers.rows[i].risk_category : i \in DOMAIN buffers.rows}
             = CategoriesPresent

\* C18: a dissolved zone carries risk_category as its sole identifying
\* attribute: no zone carries the fire_id or another attribute of an
\* individual detection, whatever columns the batch has.
C18_CategoryIsSoleAttribute ==
    Dissolved =>
        /\ buffers.columns = {"risk_category", "geometry"}
        /\ \A i \in DOMAIN buffers.rows :
              DOMAIN buffers.rows[i] = {"risk_category", "geometry"}

(***************************************************************************)
(* Properties of the ETL flow                                              *)
(***************************************************************************)

\* the run has scored its detections
Scored ==
    etl.pc \in {"scored", "buffered", "saved", "save_failed", "buffers_saved",
                "exported"}

\* weather was requested and no lookup of the run gave data
NoWeatherData ==
    /\ etl.use_weather
    /\ \A i \in DOMAIN etl.weather : etl.weather[i] = "failed"

\* C13: when weather enrichment was requested and gave no data for any
\* detection, the run scores with the base risk model: every risk_score is
\* the one calculate_base_risk gives, not one made with the enhanced weights.
C13_NoWeatherScoresBase ==
    (Scored /\ NoWeatherData) =>
        \A i \in DOMAIN batch.rows :
            LET d == batch.rows[i]
            IN  /\ d.risk_score = calculate_base_risk(d).risk_score
                /\ ~d.uses_weather_data

\* the row lacks a field required for grid assignment and scoring
Malformed(d) == {"latitude", "longitude", "acq_date"} \cap d.isnull # {}

\* C21: a detection record that misses a required field (coordinates,
\* acquisition date) is skipped individually: it is not among the records
\* scored and saved, while the remaining records of the batch are processed.
C21_MalformedSkipped ==
    /\ Scored =>
          /\ \A i \in DOMAIN batch.rows : ~Malformed(batch.rows[i])
          /\ \A i \in DOMAIN etl.fetched.rows :
                (i \in etl.retained /\ ~Malformed(etl.fetched.rows[i]))
                  => \E j \in DOMAIN batch.rows : batch.rows[j].index = i
    /\ etl.pc = "saved" => \A r \in fires : r.acq_date # 0

\* the partition filter_industrial_sources makes in a run with buffer_km b
\* on the inputs of the last run
PartitionWith(b) ==
    {<<{out.fires.rows[i].index : i \in DOMAIN out.fires.rows},
       {out.excluded.rows[i].index : i \in DOMAIN out.excluded.rows}>> :
        out \in filter_industrial_sources(etl.fetched, etl.file, etl.table, b)}

\* the run has filtered its detections
Filtered ==
    etl.pc \in {"filtered", "weather", "aqi", "scored", "buffered", "saved",
                "save_failed", "buffers_saved", "exported"}

\* C19: the industrial filter radius and the risk buffer radius are
\* independent: a run on the same inputs with another buffer_km retains and
\* excludes the same detections, the filter works with its own 1.0 km and
\* the risk buffers have the radius buffer_km of the flow.
C19_RadiiIndependent ==
    /\ Filtered =>
          /\ \A b \in FlowBufferChoices :
                PartitionWith(b) = {<<etl.retained, etl.excluded>>}
          /\ len(excluded_fires) > 0 => filter_args.buffer_km = 10
    /\ etl.pc \in {"buffered", "saved", "save_failed", "buffers_saved",
                    "exported"} =>
          /\ buffer_args.buffer_km = etl.buffer_km
          /\ \A i \in DOMAIN buffers.rows :
                buffers.rows[i].geometry.radius = etl.buffer_km * 100

\* C19 witness: a run with buffer_km 5.0 that excluded the detection 300 m
\* from the location, retained the one 3 km from it and made 5 km buffers
C19_Witness ==
    /\ etl.pc = "buffered"
    /\ etl.buffer_km = 50
    /\ etl.excluded = {1}
    /\ etl.retained = {2}
    /\ batch.rows[1].latitude = 3000
    /\ \E i \in DOMAIN buffers.rows :
          /\ ~buffers.rows[i].geometry.isnull
          /\ buffers.rows[i].geometry.radius = 5000

\* the snapshot file holds at least one location
SnapshotNonEmpty == ~snapshot.isnone /\ len(snapshot) > 0

\* C27: in a run, filter_industrial_sources queries the history (calls
\* identify_persistent_anomalies) only if no non-empty snapshot could be
\* loaded; a non-empty snapshot is what the detections are filtered against,
\* and no step of a run alters a non-empty snapshot, so that once one exists
\* no later run analyses the history again.
C27_SnapshotUsedAsIs ==
    [][/\ op'.name = "filter_industrial_sources" =>
             /\ etl'.analysed <=> ~SnapshotNonEmpty
             /\ SnapshotNonEmpty =>
                   filter_args'.persistent_locations = snapshot
       /\ SnapshotNonEmpty => snapshot' = snapshot]_vars

\* C27 witness: a second run that filtered against the snapshot it loaded,
\* without an analysis, and excluded a detection
C27_Witness ==
    /\ etl.run = 2
    /\ op.name = "filter_industrial_sources"
    /\ SnapshotNonEmpty
    /\ ~etl.analysed
    /\ filter_args.persistent_locations = snapshot
    /\ etl.excluded # {}

\* the run has cleared the store and not yet saved
ClearedNotSaved ==
    etl.pc \in {"cleared", "fetched", "returned_none", "filtered", "weather",
                "aqi", "aborted", "scored", "buffered"}

\* C28: in every run the fires and fire_buffers tables are empty from the
\* clearing at the start until the detections have been filtered and scored
\* and are saved; hence a run that analyses the history itself finds the
\* fires table empty, gets no location and retains every fetched detection.
C28_AnalysisSeesEmptyStore ==
    /\ ClearedNotSaved => fires = {} /\ fire_buffers = {}
    /\ fires # {} /\ etl.run > 1 =>
          \/ etl.pc = "start"
          \/ Scored /\ \A r \in fires :
                          \E i \in DOMAIN batch.rows :
                              r.fire_id = database_fire_id(batch.rows[i])
    /\ etl.analysed =>
          /\ etl.table = {}
          /\ len(persistent_locations) = 0
          /\ etl.excluded = {}
          /\ etl.retained = DOMAIN etl.fetched.rows

\* C28 witness: a second run without a snapshot that analysed the history
\* and retained both detections it fetched
C28_Witness ==
    /\ etl.run = 2
    /\ etl.analysed
    /\ snapshot.isnone
    /\ Len(etl.fetched.rows) = 2
    /\ etl.retained = {1, 2}
    /\ Filtered

\* the fetch of the run returned no detection
ZeroFetched ==
    etl.pc \notin {"none", "start", "cleared"} /\ len(etl.fetched) = 0

\* the filter of the run retained no detection
ZeroRetained ==
    /\ etl.pc \notin {"none", "start", "cleared", "fetched"}
    /\ len(etl.fetched) > 0
    /\ etl.retained = {}

\* C29: when the fetch returns no detection or none remains after the
\* industrial filter, the flow returns None without enriching, scoring,
\* saving or exporting: the fires and fire_buffers tables are empty and no
\* file of data/processed has been written by this run.
C29_EmptyRunLeavesExportsAlone ==
    (ZeroFetched \/ ZeroRetained) =>
        /\ etl.pc = "returned_none"
        /\ fires = {}
        /\ fire_buffers = {}
        /\ len(batch) = 0
        /\ buffers = NoBuffers
        /\ etl.weather = << >> /\ etl.air = << >>
        /\ exported.active_fires.written_by < etl.run
        /\ exported.fire_buffers.written_by < etl.run
        /\ exported.region_metadata.written_by < etl.run

\* C29 witness: a second run whose only detection was excluded by the
\* filter and which returned None, the files being those of the first run
C29_Witness ==
    /\ etl.run = 2
    /\ etl.pc = "returned_none"
    /\ ZeroRetained
    /\ etl.excluded # {}
    /\ exported.active_fires.written_by = 1
    /\ exported.region_metadata.written_by = 1
    /\ fires = {} /\ fire_buffers = {}

\* the weather columns of row d are all null
WeatherNull(d) == weather_columns \subseteq d.isnull

\* the weather columns of row d hold the forecast
WeatherFilled(d) ==
    /\ weather_columns \cap d.isnull = {}
    /\ \A c \in weather_columns : d[c] = Forecast[c]

\* C20: a failed weather or air quality lookup for one detection leaves
\* only that detection's enrichment fields null: the remaining lookups
\* still run, their fields are filled and the batch is not aborted.
C20_FailedLookupIsLocal ==
    /\ etl.pc # "aborted"
    /\ (etl.use_weather /\ etl.pc \in {"weather", "aqi", "scored"}) =>
          \A i \in DOMAIN batch.rows :
              /\ etl.weather[i] = "ok" => WeatherFilled(batch.rows[i])
              /\ etl.weather[i] = "failed" => WeatherNull(batch.rows[i])
    /\ (etl.use_aqi /\ etl.pc \in {"aqi", "scored"}) =>
          /\ \A i \in DOMAIN batch.rows :
                /\ etl.air[i] = "ok" =>
                      /\ aqi_columns \cap batch.rows[i].isnull = {}
                      /\ batch.rows[i].aqi = Observation.aqi
                /\ aqi_columns \subseteq batch.rows[i].isnull =>
                      etl.air[i] # "ok"
          /\ Len(etl.air) = len(batch)

(***************************************************************************)
(* Properties of the AirNow client                                         *)
(***************************************************************************)

\* a call is under way
InCall == airnow.pc \in {"request", "sleeping"}

\* the call has ended, by a return or by an exception
CallEnded == airnow.pc \in {"returned", "raised"}

\* the response of the last attempt of the call
LastResponse == airnow.responses[Len(airnow.responses)]

\* what holds at every moment of a call
AttemptsBounded ==
    /\ airnow.requests <= max_retries
    /\ airnow.requests = Len(airnow.responses)
    /\ \A i \in 1..(Len(airnow.responses) - 1) : airnow.responses[i] = "429"
    /\ airnow.slept \in {<< >>, <<2>>, <<2, 4>>}
    /\ airnow.pc = "request" => Len(airnow.slept) = airnow.requests
    /\ (airnow.pc = "returned" /\ ~airnow.hit /\
          LastResponse \in {"429", "status_error", "transport_error"}) =>
            /\ airnow.result = NoData
            /\ LastResponse = "429" => airnow.requests = max_retries
    /\ airnow.cache # airnow.cache_before =>
          /\ airnow.pc = "returned"
          /\ LastResponse \in {"ok", "ok_empty"}
    /\ (CallEnded /\ ~airnow.hit /\ LastResponse \notin {"ok", "ok_empty"})
          => airnow.cache = airnow.cache_before
    /\ (airnow.pc = "returned" /\ ~airnow.hit /\
          LastResponse \in {"ok", "ok_empty"}) =>
            airnow.cache = cache_put(airnow.cache_before, airnow.key,
                                     airnow.result)

\* C30: get_current_observation always ends, after at most 3 HTTP attempts:
\* a further attempt is made only after a 429, after a wait of 2 s and then
\* of 4 s; the third 429, another status error or a transport error ends
\* the call with None, and the cache changes only by the result of a
\* successful response.
C30_EndsWithinThreeAttempts ==
    /\ []AttemptsBounded
    /\ InCall ~> CallEnded

\* C30 witness: a call that ended with None on its third 429, having waited
\* 2 s and 4 s, with the result of an earlier call still in the cache
C30_Witness ==
    /\ airnow.pc = "returned"
    /\ airnow.requests = 3
    /\ airnow.responses = <<"429", "429", "429">>
    /\ airnow.slept = <<2, 4>>
    /\ airnow.result = NoData
    /\ airnow.cache # {}
    /\ airnow.cache = airnow.cache_before

(***************************************************************************)
(* Properties of the persistent anomaly detector                           *)
(***************************************************************************)

\* the last operation was an analysis whose query went through
Analysed == op.name = "identify_persistent_anomalies" /\ op.connected

\* the rows of the table dated on or after now - lookback_days
InWindowRows == {r \in fires : r.acq_date >= Today - op.lookback_days}

\* the corner of the grid cell of a row, for the step of the last analysis
CellOf(r) ==
    LET g == op.grid_size_km * 100
    IN  <<g * (r.latitude \div g), g * (r.longitude \div g)>>

\* number of in-window detections snapped to the cell
CountIn(cell) == Cardinality({r \in InWindowRows : CellOf(r) = cell})

\* the cells of the locations returned
ReturnedCells == {<<ret.rows[i].grid_lat, ret.rows[i].grid_lon>> :
                    i \in DOMAIN ret.rows}

\* C3: a grid cell has a location in the result iff the number of in-window
\* detections snapped to it is >= detection_threshold; a cell with exactly
\* the threshold is in, one with threshold - 1 is out.
C3_ThresholdInclusive ==
    Analysed =>
        /\ \A r \in fires :
              CellOf(r) \in ReturnedCells
                 <=> CountIn(CellOf(r)) >= op.detection_threshold
        /\ \A c \in ReturnedCells : CountIn(c) >= op.detection_threshold

\* C3 witness: an analysis with a cell of exactly detection_threshold
\* detections, returned, and a cell with one fewer, not returned
C3_Witness ==
    /\ Analysed
    /\ \E r \in fires :
          /\ CountIn(CellOf(r)) = op.detection_threshold
          /\ CellOf(r) \in ReturnedCells
    /\ \E r \in InWindowRows :
          /\ CountIn(CellOf(r)) = op.detection_threshold - 1
          /\ CellOf(r) \notin ReturnedCells

\* the in-window detections snapped to the cell of location l
MembersOf(l) == {r \in InWindowRows : CellOf(r) = <<l.grid_lat, l.grid_lon>>}

\* C11: for every location returned, detection_count is the number of
\* in-window detections snapped to its cell, unique_days the number of
\* distinct acquisition dates among them and detections_per_day their
\* quotient rounded to 2 decimals; 6 detections in one cell on 3 distinct
\* days with detection_threshold 5 give exactly one location with
\* detection_count 6, unique_days 3 and detections_per_day 2.0.
C11_CountsAndRate ==
    Analysed =>
        /\ \A i \in DOMAIN ret.rows :
              LET l == ret.rows[i]
                  n == Cardinality(MembersOf(l))
                  days == Cardinality({r.acq_date : r \in MembersOf(l)})
              IN  /\ l.detection_count = n
                  /\ l.unique_days = days
                  /\ Abs(2 * days * l.detections_per_day - 200 * n) <= days
        /\ (/\ op.detection_threshold = 5
            /\ Cardinality(InWindowRows) = 6
            /\ Cardinality({CellOf(r) : r \in InWindowRows}) = 1
            /\ Cardinality({r.acq_date : r \in InWindowRows}) = 3) =>
               /\ Len(ret.rows) = 1
               /\ ret.rows[1].detection_count = 6
               /\ ret.rows[1].unique_days = 3
               /\ ret.rows[1].detections_per_day = 200

\* C11 witness: an analysis with threshold 5 of six detections in one cell
\* on three days that returned the one location with 6, 3 and 2.0
C11_Witness ==
    /\ Analysed
    /\ op.detection_threshold = 5
    /\ Cardinality(InWindowRows) = 6
    /\ Cardinality({r.acq_date : r \in InWindowRows}) = 3
    /\ Len(ret.rows) = 1
    /\ ret.rows[1].detection_count = 6
    /\ ret.rows[1].unique_days = 3
    /\ ret.rows[1].detections_per_day = 200

\* C22: the locations an analysis returns are ordered by detection_count
\* descending: each one has at least the count of the one after it.
C22_OrderedByCountDescending ==
    Analysed =>
        \A i \in 1..(Len(ret.rows) - 1) :
            ret.rows[i].detection_count >= ret.rows[i + 1].detection_count

\* C22 witness: an analysis that returned two locations of different counts
C22_Witness ==
    /\ Analysed
    /\ Len(ret.rows) >= 2
    /\ ret.rows[1].detection_count > ret.rows[2].detection_count

\* x lies in the interval of width g that starts at corner
InInterval(x, corner, g) == corner <= x /\ x < corner + g

\* the row lies in the grid cell whose south-west corner is c, for the step
\* of the last analysis
InCell(r, c) ==
    /\ InInterval(r.latitude, c[1], op.grid_size_km * 100)
    /\ InInterval(r.longitude, c[2], op.grid_size_km * 100)

\* the two rows lie in one cell of the grid laid from the origin
SameGridCell(r1, r2) ==
    \E k, m \in -2..2 :
        LET c == <<k * op.grid_size_km * 100, m * op.grid_size_km * 100>>
        IN  InCell(r1, c) /\ InCell(r2, c)

\* C24: the result of an analysis does not depend on the order of the
\* historical detections: in whatever order the query lists its groups, the
\* detections lying in one grid cell are counted in one location, which has
\* the corner of that cell and counts them all and no other, on both sides
\* of zero.
C24_SameCellCountedTogether ==
    Analysed =>
        /\ \A i, j \in DOMAIN ret.rows :
              (/\ ret.rows[i].grid_lat = ret.rows[j].grid_lat
               /\ ret.rows[i].grid_lon = ret.rows[j].grid_lon) => i = j
        /\ \A i \in DOMAIN ret.rows :
              \E r \in InWindowRows :
                  InCell(r, <<ret.rows[i].grid_lat, ret.rows[i].grid_lon>>)
        /\ \A r \in InWindowRows :
              LET class == {q \in InWindowRows : SameGridCell(r, q)}
              IN  /\ Cardinality(class) >= op.detection_threshold =>
                        \E i \in DOMAIN ret.rows :
                            InCell(r, <<ret.rows[i].grid_lat,
                                        ret.rows[i].grid_lon>>)
                  /\ \A i \in DOMAIN ret.rows :
                        InCell(r, <<ret.rows[i].grid_lat,
                                    ret.rows[i].grid_lon>>)
                          => ret.rows[i].detection_count = Cardinality(class)

\* C24 witness: an analysis that returned a location south of zero counting
\* two detections, with a detection north of zero in the window as well
C24_Witness ==
    /\ Analysed
    /\ \E i \in DOMAIN ret.rows :
          /\ ret.rows[i].grid_lat < 0
          /\ ret.rows[i].detection_count >= 2
    /\ \E r \in InWindowRows : r.latitude >= 0

\* the rows of the table dated within [now - lookback_days, now]
RowsOfWindow ==
    {r \in fires : Today - op.lookback_days <= r.acq_date
                    /\ r.acq_date <= Today}

\* C25: an analysis counts only the detections dated within
\* [now - lookback_days, now]: the detection_count and unique_days of every
\* location returned are those of the detections of its cell dated in the
\* window, and its first and last date lie in the window.
C25_OnlyWindowCounts ==
    Analysed =>
        \A i \in DOMAIN ret.rows :
            LET l == ret.rows[i]
                members == {r \in RowsOfWindow :
                               CellOf(r) = <<l.grid_lat, l.grid_lon>>}
            IN  /\ l.detection_count = Cardinality(members)
                /\ l.unique_days = Cardinality({r.acq_date : r \in members})
                /\ Today - op.lookback_days <= l.first_detection
                /\ l.last_detection <= Today

\* metres between the latitudes of two rows
LatitudeGap(r1, r2) == Abs(r1.latitude - r2.latitude) * MetresPerUnit

\* C26: the grid step is grid_size_km kilometres expressed in degrees: the
\* detections counted in one location returned never lie more than
\* grid_size_km kilometres (held in metres) apart in latitude.
C26_CellIsGridSizeKmWide ==
    Analysed =>
        \A i \in DOMAIN ret.rows :
            \A r1, r2 \in MembersOf(ret.rows[i]) :
                LatitudeGap(r1, r2) <= op.grid_size_km

\* C4: when the historical store is unreachable the analysis fails with an
\* error that reaches the caller instead of returning an empty result.
C4_UnreachableIsSurfaced ==
    (op.name = "identify_persistent_anomalies" /\ ~op.connected) => ret.raised

\* C8: an analysis run replaces the persistent locations: after it the
\* stored locations are its result, and after the save that follows it the
\* snapshot is its result too, also when the run found no location.
C8_RunReplaces ==
    /\ Analysed => persistent_locations.rows = ret.rows
    /\ (/\ op.name = "save_persistent_locations"
        /\ op.after_identify
        /\ op.connected) =>
            /\ persistent_locations.rows = ret.rows
            /\ snapshot.rows = ret.rows

(***************************************************************************)
(* Properties of the fires table                                           *)
(***************************************************************************)

\* a coordinate rounded to 4 decimals, as a number (-0.0 equals 0.0)
Rounded(x) == IF x < 0 THEN -(round4(x).mag) ELSE round4(x).mag

\* C9: the fires table holds at most one row per acquisition date, latitude
\* rounded to 4 decimals and longitude rounded to 4 decimals.
C9_OneRowPerRoundedLocation ==
    \A r1, r2 \in fires :
        (/\ r1.acq_date = r2.acq_date
         /\ Rounded(r1.latitude) = Rounded(r2.latitude)
         /\ Rounded(r1.longitude) = Rounded(r2.longitude)) => r1 = r2

====
